---- MODULE Spec2Model ----
(***************************************************************************)
(* A model of culebron/rust_routing: the chain-coalescing engine of the    *)
(* graph extractor (src/graph) and the routing core (src/route).           *)
(***************************************************************************)
EXTENDS Integers, Sequences, FiniteSets, Bags, TLC

VARIABLES
    vertice,    \* ChainStorage.vertice of the storage under test
    edges,      \* ChainStorage.edges of the storage under test: NodeId -> NodeChain
    out,        \* the vector returned by the last call
    op,         \* the last call: its name, its arguments, the storage before it
    calls,      \* number of calls made so far
    mode,       \* the extraction run: "csv" (main.rs) or "gpkg" (main-gpkg.rs)
    osm,        \* the OSM file: its ways in file order, the ids of its nodes
    census,     \* what find_vertice returned
    phase,      \* where process_graph is
    todo,       \* index of the next way the reader yields
    storages,   \* the ChainStorage of each worker (of main.rs: the one storage)
    result_cs,  \* the central ChainStorage of the final reconciliation
    njoined,    \* number of worker threads joined so far
    iter,       \* entries of cs2.edges.clone() the reconciliation has still to visit
    written,    \* the chains handed to the writer, in order
    graph,      \* Graph.vertice: VertexId -> Vertex
    heap,       \* the BinaryHeap of Isochrone::try_new, a bag of VertexScore
    iso,        \* the Isochrone under construction: source and distances
    max_dist,   \* the max_dist argument of Isochrone::try_new
    ipc,        \* where Isochrone::try_new is
    route,      \* the arguments of Router::shortest_path: source and target
    forward_heap,       \* AstarRouter::shortest_path: the forward BinaryHeap
    backward_heap,      \* and the backward one, bags of VertexScore
    forward_visited,    \* the forward VisitedMap: VertexId -> VertexScore
    backward_visited,   \* the backward VisitedMap
    visit_number,       \* the counter of pops
    meet_vertex,        \* BidirPath.meet_vertex of the returned path
    landmark_dist,      \* AltRouter.landmark_dist: VertexId -> Vec<Cost>
    visited,            \* AltRouter::shortest_path: the VisitedMap
    path_out,           \* what cost(), vertice() and edges() of a BidirPath returned
    rpc,        \* where shortest_path is
    main_thread,    \* process_graph of main-gpkg.rs: where it is, threads joined,
                    \* residual chains of the joined thread still to send
    reader_left,    \* ways the reader has still to yield
    way_chan,       \* messages in the channel (s1, r1)
    edge_chan,      \* messages in the channel (s2, r2)
    threads,        \* where each worker thread is
    writer_thread,  \* where the writer thread is
    xml,            \* the events of the document an OsmXmlReader reads
    reader,         \* the OsmXmlReader: its skip flags, the position of rd, how
                    \* the last call of next ended
    items,          \* the objects the iterator has yielded, in order
    bg,             \* the BgWriter: whether its handle and its sender are Some
    obj_chan,       \* the objects in the channel of the BgWriter
    bg_thread,      \* where the thread of the BgWriter is
    wr,             \* what the OsmXmlWriter of the thread has written, in order
    returned,       \* what the calls of write and close on the BgWriter returned
    caller          \* where the caller of the BgWriter is

svars == <<vertice, edges, out, op, calls>>
xvars == <<mode, osm, census, phase, todo, storages, result_cs, njoined, iter, written>>
gvars == <<graph, heap, iso, max_dist, ipc>>
rvars == <<route, forward_heap, backward_heap, forward_visited, backward_visited,
           visit_number, meet_vertex, landmark_dist, visited, path_out, rpc>>
pvars == <<main_thread, reader_left, way_chan, edge_chan, threads, writer_thread>>
evars == <<xml, reader, items>>
bvars == <<bg, obj_chan, bg_thread, wr, returned, caller>>
vars == <<svars, xvars, gvars, rvars, pvars, evars, bvars>>

\* what the calls on a storage, the extraction run and the graph leave alone
notStorage == <<xvars, gvars, rvars, pvars, evars, bvars>>
notRun == <<svars, gvars, rvars, pvars, evars, bvars>>
notGraph == <<svars, xvars, rvars, pvars, evars, bvars>>
notRoute == <<svars, xvars, iso, max_dist, ipc, pvars, evars, bvars>>
notPipe == <<svars, xvars, gvars, rvars, evars, bvars>>
notReader == <<svars, xvars, gvars, rvars, pvars, bvars>>
notWriter == <<svars, xvars, gvars, rvars, pvars, evars>>

----------------------------------------------------------------------------
(* Bounds of the model *)

\* NodeIds of the storage specifications are 1..MaxNode
MaxNode == 3
\* longest node list of a way or chain handed to the storage
MaxWayLen == 3
\* calls made on one storage
MaxCalls == 2
\* NodeIds of the chains handed to couple are 1..MaxCoupleNode
MaxCoupleNode == 5
\* NodeIds and way length of the specification of the cutting of one way
MaxCutNode == 4
\* NodeIds of an extraction run are 1..MaxRunNode
MaxRunNode == 4
\* ways of the OSM file of an extraction run
MaxWays == 3
\* worker threads of the GeoPackage pipeline (8 in main-gpkg.rs)
NumWorkers == 2
\* ways of the OSM file the census alone is run on
MaxCensusWays == 2
\* VertexIds of the graph a search runs on are 1..MaxVertex
MaxVertex == 3
\* undirected edges added to the graph
MaxEdges == 3
\* the weights of edges are 0, 1 and MaxWeight
MaxWeight == 3
\* the max_dist arguments of a search are None and Some(0..MaxDist)
MaxDist == 3
\* test_isochrone: the weight of every edge and the max_dist of the bounded search
TestWeight == 2
TestMaxDist == 7

Nodes == 1..MaxNode

----------------------------------------------------------------------------
(* Option<T>: None is the empty sequence, Some(x) the one-element sequence *)

None == <<>>
Some(x) == <<x>>

Min(S) == CHOOSE x \in S : \A y \in S : x <= y

Reverse(s) == [i \in 1..Len(s) |-> s[Len(s) + 1 - i]]

\* s[from..to], 1-based and inclusive; empty when from > to
Slice(s, from, to) == [i \in 1..(to - from + 1) |-> s[from + i - 1]]

----------------------------------------------------------------------------
(* src/graph/src/lib.rs: tags and attributes *)

parse_road_cat(s) ==
    IF s = None THEN None
    ELSE CASE s[1] = "bridleway"      -> Some("Bridleway")
           [] s[1] = "cycleway"       -> Some("Cycleway")
           [] s[1] = "footway"        -> Some("Footway")
           [] s[1] = "living_street"  -> Some("Living")
           [] s[1] = "motorway"       -> Some("Motorway")
           [] s[1] = "path"           -> Some("Path")
           [] s[1] = "pedestrian"     -> Some("Pedestrian")
           [] s[1] = "primary"        -> Some("Primary")
           [] s[1] = "primary_link"   -> Some("Primary")
           [] s[1] = "residential"    -> Some("Residential")
           [] s[1] = "road"           -> Some("Road")
           [] s[1] = "secondary"      -> Some("Secondary")
           [] s[1] = "secondary_link" -> Some("Secondary")
           [] s[1] = "service"        -> Some("Service")
           [] s[1] = "steps"          -> Some("Steps")
           [] s[1] = "tertiary"       -> Some("Tertiary")
           [] s[1] = "tertiary_link"  -> Some("Tertiary")
           [] s[1] = "track"          -> Some("Track")
           [] s[1] = "trunk"          -> Some("Trunk")
           [] s[1] = "trunk_link"     -> Some("Trunk")
           [] s[1] = "unclassified"   -> Some("Unclassified")
           [] OTHER                   -> None

\* impl From<Option<&Arc<str>>> for OneWay
OneWay_from(data) ==
    IF data = None THEN "No"
    ELSE CASE data[1] = "yes" -> "Forward"
           [] data[1] = "-1"  -> "Backward"
           [] OTHER           -> "No"

\* str::parse::<u16> on the maxspeed strings of the model
parse_u16(v) ==
    CASE v = "50" -> Some(50)
      [] v = "90" -> Some(90)
      [] OTHER    -> None

\* impl From<Option<&Arc<str>>> for MaxSpeed
MaxSpeed_from(data) ==
    IF data = None THEN None ELSE parse_u16(data[1])

----------------------------------------------------------------------------
(* src/graph/src/lib.rs: NodeChain *)

NodeChain_new(way_id, nodes, category, lanes, oneway, maxspeed) ==
    [way_id |-> Some(way_id), nodes |-> nodes, category |-> category,
     lanes |-> lanes, oneway |-> oneway, maxspeed |-> maxspeed]

ends(nc) == <<nc.nodes[1], nc.nodes[Len(nc.nodes)]>>

\* a slip: the first arrangement chains mine unreversed
couple_unreversed(self, other) ==
    IF self.oneway # other.oneway \/ self.category # other.category
          \/ self.lanes # other.lanes
    THEN None
    ELSE
      LET se == ends(self)
          oe == ends(other)
          mine == self.nodes
          their == other.nodes
          joined(ns) == Some([way_id |-> None, nodes |-> ns,
                              category |-> self.category, lanes |-> self.lanes,
                              oneway |-> self.oneway, maxspeed |-> self.maxspeed])
      IN  IF se[1] = oe[1] THEN joined(Tail(mine) \o their)
          ELSE IF se[1] = oe[2] THEN joined(their \o Tail(mine))
          ELSE IF se[2] = oe[1] THEN joined(mine \o Tail(their))
          ELSE IF se[2] = oe[2]
               THEN joined(SubSeq(mine, 1, Len(mine) - 1) \o Reverse(their))
          ELSE None

couple(self, other) ==
    IF self.oneway # other.oneway \/ self.category # other.category
          \/ self.lanes # other.lanes
    THEN None
    ELSE
      LET se == ends(self)
          oe == ends(other)
          mine == self.nodes
          their == other.nodes
          joined(ns) == Some([way_id |-> None, nodes |-> ns,
                              category |-> self.category, lanes |-> self.lanes,
                              oneway |-> self.oneway, maxspeed |-> self.maxspeed])
      IN  IF se[1] = oe[1] THEN joined(Reverse(Tail(mine)) \o their)
          ELSE IF se[1] = oe[2] THEN joined(their \o Tail(mine))
          ELSE IF se[2] = oe[1] THEN joined(mine \o Tail(their))
          ELSE IF se[2] = oe[2]
               THEN joined(SubSeq(mine, 1, Len(mine) - 1) \o Reverse(their))
          ELSE None

----------------------------------------------------------------------------
(* src/graph/src/lib.rs: ChainStorage; a storage is [vertice, edges] *)

ChainStorage_new(V) == [vertice |-> V, edges |-> <<>>]

\* a slip: only the entry at the first end is removed
remove_first_end(cs, nc) ==
    [cs EXCEPT !.edges = [n \in (DOMAIN cs.edges) \ {ends(nc)[1]} |-> cs.edges[n]]]

remove(cs, nc) ==
    LET gone == {ends(nc)[1], ends(nc)[2]}
    IN  [cs EXCEPT !.edges = [n \in (DOMAIN cs.edges) \ gone |-> cs.edges[n]]]

\* a slip: nc goes under the first of its non-vertex ends only
store_one_end(cs, nc) ==
    LET e == IF ends(nc)[1] \notin cs.vertice THEN ends(nc)[1] ELSE ends(nc)[2]
    IN  [cs EXCEPT !.edges = [n \in (DOMAIN cs.edges) \cup {e} |->
                                 IF n = e THEN nc ELSE cs.edges[n]]]

\* the fallback store of insert: nc goes under each of its non-vertex ends
store(cs, nc) ==
    LET dangling == {ends(nc)[i] : i \in {1, 2}} \ cs.vertice
    IN  [cs EXCEPT !.edges = [n \in (DOMAIN cs.edges) \cup dangling |->
                                 IF n \in dangling THEN nc ELSE cs.edges[n]]]

\* a slip: || for && in the test of the two ends
is_full_edge_either(cs, nc) ==
    ends(nc)[1] \in cs.vertice \/ ends(nc)[2] \in cs.vertice

\* a slip: a chain that closes on itself is not taken for a full edge
is_full_edge_open(cs, nc) ==
    /\ ends(nc)[1] \in cs.vertice /\ ends(nc)[2] \in cs.vertice
    /\ ends(nc)[1] # ends(nc)[2]

\* both ends are vertices: the chain is handed back
is_full_edge(cs, nc) ==
    ends(nc)[1] \in cs.vertice /\ ends(nc)[2] \in cs.vertice

RECURSIVE insert(_, _)
insert(cs, nc) ==
    LET es == ends(nc)
        \* the ends the for loop does not skip and finds a stored chain at
        hits == {i \in {1, 2} : es[i] \notin cs.vertice /\ es[i] \in DOMAIN cs.edges}
    IN  IF is_full_edge(cs, nc) THEN [out |-> <<nc>>, cs |-> cs]
        ELSE IF hits # {}
        THEN LET e == es[Min(hits)]
                 nc2 == cs.edges[e]
                 nc3 == couple(nc, nc2)
             IN  IF nc3 # None
                 THEN insert(remove(cs, nc2), nc3[1])
                 ELSE LET promoted == [cs EXCEPT !.vertice = @ \cup {e}]
                          r1 == insert(promoted, nc)
                          r2 == insert(r1.cs, nc2)
                      IN  [out |-> r1.out \o r2.out, cs |-> r2.cs]
        ELSE [out |-> <<>>, cs |-> store(cs, nc)]

\* a slip: the cut at the last index is forgotten
RECURSIVE cuts_no_last(_, _, _, _)
cuts_no_last(nodes, V, prev_i, cur_i) ==
    IF cur_i > Len(nodes) THEN <<>>
    ELSE IF cur_i > prev_i /\ nodes[cur_i] \in V
         THEN <<<<prev_i, cur_i>>>> \o cuts_no_last(nodes, V, cur_i, cur_i + 1)
         ELSE cuts_no_last(nodes, V, prev_i, cur_i + 1)

\* the cut indices of insert_way's loop, from cur_i on (1-based)
RECURSIVE cuts(_, _, _, _)
cuts(nodes, V, prev_i, cur_i) ==
    IF cur_i > Len(nodes) THEN <<>>
    ELSE IF (cur_i > prev_i /\ nodes[cur_i] \in V) \/ cur_i = Len(nodes)
         THEN <<<<prev_i, cur_i>>>> \o cuts(nodes, V, cur_i, cur_i + 1)
         ELSE cuts(nodes, V, prev_i, cur_i + 1)

\* res of insert_way: the candidate chains of a way of category cat
candidates(cs, way, cat) ==
    LET cs_ == cuts(way.nodes, cs.vertice, 1, 1)
    IN  [k \in 1..Len(cs_) |->
            NodeChain_new(way.id, Slice(way.nodes, cs_[k][1], cs_[k][2]), cat, 1,
                          OneWay_from(way.tags.oneway),
                          MaxSpeed_from(way.tags.maxspeed))]

\* res.into_iter().map(|i| self.insert(i)).flatten().collect()
RECURSIVE insert_each(_, _)
insert_each(cs, res) ==
    IF res = <<>> THEN [out |-> <<>>, cs |-> cs]
    ELSE LET r1 == insert(cs, Head(res))
             r2 == insert_each(r1.cs, Tail(res))
         IN  [out |-> r1.out \o r2.out, cs |-> r2.cs]

\* overflow_checks: the build panics on way.nodes.len() - 1 of an empty way
\* (a debug build); a release build wraps and goes on
insert_way(cs, way, overflow_checks) ==
    IF Len(way.nodes) = 0 /\ overflow_checks
    THEN [panic |-> TRUE, out |-> <<>>, cs |-> cs]
    ELSE LET cat == parse_road_cat(way.tags.highway)
         IN  IF cat = None THEN [panic |-> FALSE, out |-> <<>>, cs |-> cs]
             ELSE LET r == insert_each(cs, candidates(cs, way, cat[1]))
                  IN  [panic |-> FALSE, out |-> r.out, cs |-> r.cs]

----------------------------------------------------------------------------
(* Inputs of the storage specifications *)

\* node lists of lengths lo..hi over ns
NodeLists(ns, lo, hi) == UNION {[1..k -> ns] : k \in lo..hi}

Tags(hw, ow, ms) == [highway |-> hw, oneway |-> ow, maxspeed |-> ms]

TagPool ==
    { Tags(Some("primary"), None, None),
      Tags(Some("service"), None, None),
      Tags(Some("primary"), Some("yes"), None),
      Tags(Some("primary"), None, Some("50")),
      Tags(Some("proposed"), None, None),
      Tags(None, None, None) }

WayPool ==
    {[id |-> 7, nodes |-> ns, tags |-> t] :
        ns \in NodeLists(Nodes, 0, MaxWayLen), t \in TagPool}

ChainPool ==
    {NodeChain_new(7, ns, c, 1, "No", None) :
        ns \in NodeLists(Nodes, 2, MaxWayLen), c \in {"Primary", "Service"}}

NoChain == [way_id |-> None, nodes |-> <<>>, category |-> "", lanes |-> 0,
            oneway |-> "", maxspeed |-> None]
NoWay == [id |-> 0, nodes |-> <<>>, tags |-> Tags(None, None, None)]

Call(name, nc, other, way, panic) ==
    [name |-> name, nc |-> nc, other |-> other, way |-> way, panic |-> panic,
     vertice |-> vertice, edges |-> edges]

\* no storage under test
IdleStorage ==
    /\ vertice = {} /\ edges = <<>> /\ out = <<>> /\ calls = 0
    /\ op = [name |-> "new", nc |-> NoChain, other |-> NoChain, way |-> NoWay,
             panic |-> FALSE, vertice |-> {}, edges |-> <<>>]

\* no pipeline of threads
IdlePipe ==
    /\ main_thread = [at |-> "idle", joined |-> 0, residual |-> 0]
    /\ reader_left = 0 /\ way_chan = 0 /\ edge_chan = 0
    /\ threads = <<>>
    /\ writer_thread = "idle"

\* no reader
IdleReader ==
    /\ xml = <<>>
    /\ reader = [skip_nodes |-> FALSE, skip_ways |-> FALSE, skip_relations |-> FALSE,
                 rd |-> 0, last |-> "idle"]
    /\ items = <<>>

\* no BgWriter
IdleWriter ==
    /\ bg = [handle |-> FALSE, sender |-> FALSE]
    /\ obj_chan = <<>>
    /\ bg_thread = "idle"
    /\ wr = <<>>
    /\ returned = <<>>
    /\ caller = "idle"

\* no graph and no search
IdleGraph ==
    /\ graph = <<>>
    /\ heap = <<>>
    /\ iso = [source |-> 0, distances |-> <<>>]
    /\ max_dist = None
    /\ ipc = "idle"

\* no route asked for
IdleRoute ==
    /\ route = [source |-> 0, target |-> 0]
    /\ forward_heap = <<>> /\ backward_heap = <<>>
    /\ forward_visited = <<>> /\ backward_visited = <<>>
    /\ visit_number = 0
    /\ meet_vertex = 0
    /\ landmark_dist = <<>> /\ visited = <<>> /\ path_out = <<>>
    /\ rpc = "idle"

\* no extraction run
IdleRun ==
    /\ mode = "none"
    /\ osm = [ways |-> <<>>, nodes |-> {}]
    /\ census = [panic |-> FALSE, vertice |-> {}, node_coords |-> {}, used_nodes |-> <<>>]
    /\ phase = "idle"
    /\ todo = 0
    /\ storages = <<>>
    /\ result_cs = [vertice |-> {}, edges |-> <<>>]
    /\ njoined = 0
    /\ iter = <<>>
    /\ written = <<>>

----------------------------------------------------------------------------
(* Calls on one ChainStorage *)

InitStorage ==
    /\ IdleRun /\ IdleGraph /\ IdleRoute /\ IdlePipe /\ IdleReader /\ IdleWriter
    /\ vertice \in SUBSET Nodes
    /\ edges = <<>>
    /\ out = <<>>
    /\ op = [name |-> "new", nc |-> NoChain, other |-> NoChain, way |-> NoWay,
             panic |-> FALSE, vertice |-> vertice, edges |-> <<>>]
    /\ calls = 0

InsertCall ==
    /\ UNCHANGED notStorage
    /\ calls < MaxCalls
    /\ ~op.panic
    /\ \E nc \in ChainPool :
          LET r == insert([vertice |-> vertice, edges |-> edges], nc)
          IN  /\ vertice' = r.cs.vertice
              /\ edges' = r.cs.edges
              /\ out' = r.out
              /\ op' = Call("insert", nc, NoChain, NoWay, FALSE)
    /\ calls' = calls + 1

InsertWayCall ==
    /\ UNCHANGED notStorage
    /\ calls < MaxCalls
    /\ ~op.panic
    /\ \E way \in WayPool :
       \E oc \in (IF way.nodes = <<>> THEN BOOLEAN ELSE {FALSE}) :
          LET r == insert_way([vertice |-> vertice, edges |-> edges], way, oc)
          IN  /\ vertice' = r.cs.vertice
              /\ edges' = r.cs.edges
              /\ out' = r.out
              /\ op' = Call("insert_way", NoChain, NoChain, way, r.panic)
    /\ calls' = calls + 1

NextStorage == InsertCall \/ InsertWayCall

SpecStorage == InitStorage /\ [][NextStorage]_vars

----------------------------------------------------------------------------
(* Properties of the calls on one ChainStorage (SpecStorage) *)

Range(s) == {s[i] : i \in DOMAIN s}

\* the storage the last call started from
Before == [vertice |-> op.vertice, edges |-> op.edges]

\* C2: every chain returned by insert or insert_way has both of its ends in
\* the storage's vertex set when it is returned
C2_ReturnedEndsAreVertices ==
    op.name \in {"insert", "insert_way"} =>
        \A i \in DOMAIN out :
            ends(out[i])[1] \in vertice /\ ends(out[i])[2] \in vertice

\* a chain coupled from two calls' chains is returned, its ends promoted or known
C2_Witness ==
    /\ op.name = "insert"
    /\ \E i \in DOMAIN out : out[i].way_id = None /\ Len(out[i].nodes) > 2
    /\ ends(op.nc)[1] \notin op.vertice

\* the late-promotion scenario: X = [a, b] primary is stored under its dangling
\* end b, a and c are vertices, and Y = [b, c] service is inserted
LatePromotion(a, b, c) ==
    /\ op.name = "insert"
    /\ op.nc.nodes = <<b, c>> /\ op.nc.category = "Service"
    /\ a \in op.vertice /\ c \in op.vertice /\ b \notin op.vertice
    /\ b \in DOMAIN op.edges
    /\ op.edges[b].nodes = <<a, b>> /\ op.edges[b].category = "Primary"

\* C5: in the late-promotion scenario insert returns exactly X and Y, b is a
\* vertex afterwards and edges has no entry at b
C5_LatePromotion ==
    \A a, b, c \in Nodes :
        LatePromotion(a, b, c) =>
            /\ Len(out) = 2 /\ Range(out) = {op.edges[b], op.nc}
            /\ b \in vertice
            /\ b \notin DOMAIN edges

\* C6: insert of a chain whose two ends are vertices returns exactly that chain
\* and leaves edges and vertice as they were
C6_FullEdgeReturned ==
    (op.name = "insert"
        /\ ends(op.nc)[1] \in op.vertice /\ ends(op.nc)[2] \in op.vertice) =>
        /\ out = <<op.nc>>
        /\ edges = op.edges
        /\ vertice = op.vertice

\* a full edge is inserted into a storage that holds partial chains
C6_Witness ==
    /\ op.name = "insert"
    /\ ends(op.nc)[1] \in op.vertice /\ ends(op.nc)[2] \in op.vertice
    /\ op.edges # <<>>
    /\ out = <<op.nc>>

\* C8: insert_way of a way that is no road, or has fewer than 2 nodes, returns
\* nothing, leaves the storage as it was and does not panic
C8_NothingFromShortOrNonRoad ==
    (op.name = "insert_way"
        /\ (parse_road_cat(op.way.tags.highway) = None \/ Len(op.way.nodes) < 2)) =>
        /\ ~op.panic
        /\ out = <<>>
        /\ edges = op.edges
        /\ vertice = op.vertice

----------------------------------------------------------------------------
(* The cutting of one way by a fresh storage: ChainStorage::new(vertice),  *)
(* then one insert_way                                                     *)

CutNodes == 1..MaxCutNode

CutWays ==
    {[id |-> 7, nodes |-> ns, tags |-> Tags(Some("primary"), None, None)] :
        ns \in NodeLists(CutNodes, 2, MaxCutNode)}

InitCut ==
    /\ IdleRun /\ IdleGraph /\ IdleRoute /\ IdlePipe /\ IdleReader /\ IdleWriter
    /\ vertice \in SUBSET CutNodes
    /\ edges = <<>>
    /\ out = <<>>
    /\ op = [name |-> "new", nc |-> NoChain, other |-> NoChain, way |-> NoWay,
             panic |-> FALSE, vertice |-> vertice, edges |-> <<>>]
    /\ calls = 0

CutCall ==
    /\ UNCHANGED notStorage
    /\ calls = 0
    /\ \E way \in CutWays :
          LET r == insert_way([vertice |-> vertice, edges |-> edges], way, FALSE)
          IN  /\ vertice' = r.cs.vertice
              /\ edges' = r.cs.edges
              /\ out' = r.out
              /\ op' = Call("insert_way", NoChain, NoChain, way, r.panic)
    /\ calls' = 1

SpecCut == InitCut /\ [][CutCall]_vars

\* the candidate chains the last insert_way cut its way into
Cand == candidates(Before, op.way, parse_road_cat(op.way.tags.highway)[1])

\* s1 followed by s2 without s2's first element
RECURSIVE Glue(_)
Glue(cands) ==
    IF Len(cands) = 1 THEN cands[1].nodes
    ELSE cands[1].nodes \o Tail(Glue(Tail(cands)))

\* C7 (the cutting rule): the candidates of a routable way of at least 2 nodes
\* have at least 2 nodes each, each starts at the node the one before it ends
\* at, glued at these cut nodes they give the way's node list, every candidate
\* but the last ends at a vertex, and no interior node of a candidate is a vertex
C7_Cutting ==
    (op.name = "insert_way" /\ Len(op.way.nodes) >= 2) =>
        /\ Len(Cand) >= 1
        /\ \A k \in DOMAIN Cand : Len(Cand[k].nodes) >= 2
        /\ \A k \in 1..(Len(Cand) - 1) :
              /\ ends(Cand[k])[2] = ends(Cand[k + 1])[1]
              /\ ends(Cand[k])[2] \in op.vertice
        /\ Glue(Cand) = op.way.nodes
        /\ \A k \in DOMAIN Cand : \A i \in 2..(Len(Cand[k].nodes) - 1) :
              Cand[k].nodes[i] \notin op.vertice

\* C7 (the example): of the way [A, B, C, D] with only B and D vertices, a
\* fresh storage keeps [A, B] under A and returns exactly the edge [B, C, D]
C7_Example ==
    \A A, B, C, D \in CutNodes :
        (op.name = "insert_way" /\ op.way.nodes = <<A, B, C, D>>
            /\ Cardinality({A, B, C, D}) = 4 /\ op.vertice = {B, D}) =>
            /\ Len(out) = 1 /\ out[1].nodes = <<B, C, D>>
            /\ DOMAIN edges = {A} /\ edges[A].nodes = <<A, B>>
            /\ vertice = op.vertice

\* C7: the cutting rule of insert_way and its example
C7_InsertWayCuts == C7_Cutting /\ C7_Example

\* the way [1, 2, 3, 4] has been cut by a storage whose vertices are 2 and 4
C7_Witness ==
    /\ op.name = "insert_way" /\ op.way.nodes = <<1, 2, 3, 4>>
    /\ op.vertice = {2, 4}
    /\ Len(Cand) = 2 /\ Len(out) = 1

----------------------------------------------------------------------------
(* couple as a function of two chains *)

CoupleNodes == 1..MaxCoupleNode

CoupleAttrs ==
    { [category |-> "Primary", lanes |-> 1, oneway |-> "No", maxspeed |-> None],
      [category |-> "Service", lanes |-> 1, oneway |-> "No", maxspeed |-> None],
      [category |-> "Primary", lanes |-> 2, oneway |-> "No", maxspeed |-> None],
      [category |-> "Primary", lanes |-> 1, oneway |-> "Forward", maxspeed |-> None],
      [category |-> "Primary", lanes |-> 1, oneway |-> "No", maxspeed |-> Some(50)] }

CouplePool ==
    {NodeChain_new(7, ns, a.category, a.lanes, a.oneway, a.maxspeed) :
        ns \in NodeLists(CoupleNodes, 2, MaxWayLen), a \in CoupleAttrs}

InitCouple ==
    /\ IdleRun /\ IdleGraph /\ IdleRoute /\ IdlePipe /\ IdleReader /\ IdleWriter
    /\ vertice = {}
    /\ edges = <<>>
    /\ out = <<>>
    /\ op = [name |-> "new", nc |-> NoChain, other |-> NoChain, way |-> NoWay,
             panic |-> FALSE, vertice |-> {}, edges |-> <<>>]
    /\ calls = 0

\* out is the Option couple returns
CoupleCall ==
    /\ UNCHANGED notStorage
    /\ calls = 0
    /\ \E a, b \in CouplePool :
          /\ out' = couple(a, b)
          /\ op' = Call("couple", a, b, NoWay, FALSE)
    /\ calls' = 1
    /\ UNCHANGED <<vertice, edges>>

SpecCouple == InitCouple /\ [][CoupleCall]_vars

NodeSet(nc) == Range(nc.nodes)

IsSimple(ns) == Cardinality(Range(ns)) = Len(ns)

\* the segments of a node list, as unordered pairs
Segments(ns) == {{ns[i], ns[i + 1]} : i \in 1..(Len(ns) - 1)}

SameAttrs(a, b) ==
    a.oneway = b.oneway /\ a.category = b.category /\ a.lanes = b.lanes

ShareAnEnd(a, b) == \E i, j \in {1, 2} : ends(a)[i] = ends(b)[j]

\* the result is a simple path over the nodes of a and b, each once, made of
\* the segments of a and b
JoinedSimplePath(a, b) ==
    /\ out # None
    /\ IsSimple(out[1].nodes)
    /\ Range(out[1].nodes) = NodeSet(a) \cup NodeSet(b)
    /\ Segments(out[1].nodes) = Segments(a.nodes) \cup Segments(b.nodes)

\* C4, as claimed: for any two chains (simple paths) with equal attributes that
\* share an endpoint, couple returns a simple path holding every node of both
\* exactly once
C4_AsClaimed ==
    (op.name = "couple" /\ SameAttrs(op.nc, op.other)
        /\ IsSimple(op.nc.nodes) /\ IsSimple(op.other.nodes)
        /\ ShareAnEnd(op.nc, op.other)) =>
        JoinedSimplePath(op.nc, op.other)

\* C4, amended: the same when the shared endpoint is the only node the two
\* chains have in common
C4_CoupleSimplePath ==
    (op.name = "couple" /\ SameAttrs(op.nc, op.other)
        /\ IsSimple(op.nc.nodes) /\ IsSimple(op.other.nodes)
        /\ ShareAnEnd(op.nc, op.other)
        /\ Cardinality(NodeSet(op.nc) \cap NodeSet(op.other)) = 1) =>
        JoinedSimplePath(op.nc, op.other)

\* two chains that start at the same node have been coupled, the first reversed
C4_Witness ==
    /\ op.name = "couple"
    /\ op.nc.nodes = <<1, 2>> /\ op.other.nodes = <<1, 3, 4>>
    /\ SameAttrs(op.nc, op.other)
    /\ out # None /\ out[1].nodes = <<2, 1, 3, 4>>

----------------------------------------------------------------------------
(* src/graph/src/lib.rs: find_vertice *)

\* *used_nodes.entry(NodeId(node_id)).or_insert(0) += 1, for each id of ids
RECURSIVE count_nodes(_, _)
count_nodes(used_nodes, ids) ==
    IF ids = <<>> THEN used_nodes
    ELSE LET n == Head(ids)
             c == IF n \in DOMAIN used_nodes THEN used_nodes[n] ELSE 0
         IN  count_nodes([k \in (DOMAIN used_nodes) \cup {n} |->
                             IF k = n THEN c + 1 ELSE used_nodes[k]], Tail(ids))

\* a slip: the interior slice is not counted a second time
counted_ids_once(way) == way.nodes

\* [&way.nodes, &way.nodes[1..way.nodes.len() - 1]].concat()
counted_ids(way) == way.nodes \o SubSeq(way.nodes, 2, Len(way.nodes) - 1)

\* the closure handed to map_ways, over the ways of the file; the slice
\* way.nodes[1..len - 1] panics on a way of fewer than 2 nodes
RECURSIVE count_ways(_, _)
count_ways(used_nodes, ways) ==
    IF ways = <<>> THEN [panic |-> FALSE, used_nodes |-> used_nodes]
    ELSE LET way == Head(ways)
         IN  IF parse_road_cat(way.tags.highway) = None
             THEN count_ways(used_nodes, Tail(ways))
             ELSE IF Len(way.nodes) < 2
             THEN [panic |-> TRUE, used_nodes |-> used_nodes]
             ELSE count_ways(count_nodes(used_nodes, counted_ids(way)), Tail(ways))

\* node_coords is kept as the set of ids a coordinate was recorded for
find_vertice(file) ==
    LET c == count_ways(<<>>, file.ways)
    IN  IF c.panic
        THEN [panic |-> TRUE, vertice |-> {}, node_coords |-> {},
              used_nodes |-> c.used_nodes]
        ELSE [panic |-> FALSE,
              vertice |-> {k \in DOMAIN c.used_nodes : c.used_nodes[k] # 2},
              node_coords |-> {n \in file.nodes : n \in DOMAIN c.used_nodes},
              used_nodes |-> c.used_nodes]

----------------------------------------------------------------------------
(* The extraction run: process_graph of main.rs and of main-gpkg.rs *)

RunNodes == 1..MaxRunNode
Workers == 1..NumWorkers

Max(a, b) == IF a >= b THEN a ELSE b

\* NodeIds are opaque: the files are taken up to a renaming of the nodes (a
\* node's first occurrence follows those of the smaller ids) and of the two
\* categories (the first way is primary). No way names a node twice in a row.
\* RunLists(m, last, len): the lists of len nodes that may follow a file whose
\* largest id is m, after the node last (0: none), each with the largest id then
RECURSIVE RunLists(_, _, _)
RunLists(m, last, len) ==
    IF len = 0 THEN {[nodes |-> <<>>, max |-> m]}
    ELSE UNION {{[nodes |-> <<x>> \o r.nodes, max |-> r.max] :
                    r \in RunLists(Max(m, x), x, len - 1)} :
                x \in (1..(IF m < MaxRunNode THEN m + 1 ELSE m)) \ {last}}

RunWay(ns, hw) == [id |-> 7, nodes |-> ns, tags |-> Tags(Some(hw), None, None)]

RunListsAfter(m) == UNION {RunLists(m, 0, len) : len \in 2..MaxWayLen}

\* osm is a file that starts with the ways of prefix, whose largest id is m,
\* and goes on with at most k ways more
RECURSIVE RunFile(_, _, _)
RunFile(prefix, m, k) ==
    \/ prefix # <<>> /\ osm = [ways |-> prefix, nodes |-> RunNodes]
    \/ /\ k > 0
       /\ \E l \in RunListsAfter(m) :
          \E hw \in (IF prefix = <<>> THEN {"primary"} ELSE {"primary", "service"}) :
              RunFile(Append(prefix, RunWay(l.nodes, hw)), l.max, k - 1)

InitRun ==
    /\ IdleStorage /\ IdleGraph /\ IdleRoute /\ IdlePipe /\ IdleReader /\ IdleWriter
    /\ mode \in {"csv", "gpkg"}
    /\ RunFile(<<>>, 0, MaxWays)
    /\ census = [panic |-> FALSE, vertice |-> {}, node_coords |-> {}, used_nodes |-> <<>>]
    /\ phase = "census"
    /\ todo = 1
    /\ storages = <<>>
    /\ result_cs = [vertice |-> {}, edges |-> <<>>]
    /\ njoined = 0
    /\ iter = <<>>
    /\ written = <<>>

\* find_vertice, then ChainStorage::new(&vertice) for the one storage of
\* main.rs or for each worker thread of main-gpkg.rs
FindVertice ==
    /\ phase = "census"
    /\ census' = find_vertice(osm)
    /\ IF census'.panic
       THEN phase' = "panic" /\ storages' = storages
       ELSE /\ phase' = "run"
            /\ storages' = [k \in (IF mode = "gpkg" THEN Workers ELSE {1}) |->
                         ChainStorage_new(census'.vertice)]
    /\ UNCHANGED <<notRun, mode, osm, todo, result_cs, njoined, iter, written>>

\* main.rs: the map_ways closure on the next way of the file
CsvInsertWay ==
    /\ mode = "csv" /\ phase = "run" /\ todo <= Len(osm.ways)
    /\ LET r == insert_way(storages[1], osm.ways[todo], FALSE)
       IN  /\ storages' = [storages EXCEPT ![1] = r.cs]
           /\ written' = written \o r.out
    /\ todo' = todo + 1
    /\ UNCHANGED <<notRun, mode, osm, census, phase, result_cs, njoined, iter>>

\* main.rs: map_ways has gone through the file
CsvDone ==
    /\ mode = "csv" /\ phase = "run" /\ todo > Len(osm.ways)
    /\ phase' = "done"
    /\ UNCHANGED <<notRun, mode, osm, census, todo, storages, result_cs, njoined, iter, written>>

\* main-gpkg.rs: worker k receives the next way, inserts it and sends the result
GpkgWorker(k) ==
    /\ mode = "gpkg" /\ phase = "run" /\ todo <= Len(osm.ways)
    /\ LET r == insert_way(storages[k], osm.ways[todo], FALSE)
       IN  /\ storages' = [storages EXCEPT ![k] = r.cs]
           /\ written' = written \o r.out
    /\ todo' = todo + 1
    /\ UNCHANGED <<notRun, mode, osm, census, phase, result_cs, njoined, iter>>

\* main-gpkg.rs: the reader has sent every way; the central storage is made
GpkgReaderDone ==
    /\ mode = "gpkg" /\ phase = "run" /\ todo > Len(osm.ways)
    /\ phase' = "join"
    /\ result_cs' = ChainStorage_new(census.vertice)
    /\ UNCHANGED <<notRun, mode, osm, census, todo, storages, njoined, iter, written>>

\* main-gpkg.rs: th.join() of the next thread, result_cs.vertice.extend, and
\* the clone of its edges the for loop goes through
GpkgJoinThread ==
    /\ phase = "join" /\ DOMAIN iter = {} /\ njoined < NumWorkers
    /\ njoined' = njoined + 1
    /\ result_cs' = [result_cs EXCEPT !.vertice = @ \cup storages[njoined + 1].vertice]
    /\ iter' = storages[njoined + 1].edges
    /\ UNCHANGED <<notRun, mode, osm, census, phase, todo, storages, written>>

\* main-gpkg.rs: one turn of the for loop over the clone, in the HashMap's order
GpkgDrain ==
    /\ phase = "join"
    /\ \E n \in DOMAIN iter :
          LET e == iter[n]
              r == insert(result_cs, e)
          IN  /\ storages' = [storages EXCEPT ![njoined] = remove(@, e)]
              /\ result_cs' = r.cs
              /\ written' = written \o r.out
              /\ iter' = [m \in (DOMAIN iter) \ {n} |-> iter[m]]
    /\ UNCHANGED <<notRun, mode, osm, census, phase, todo, njoined>>

\* main-gpkg.rs: every thread is joined and drained
GpkgDone ==
    /\ phase = "join" /\ DOMAIN iter = {} /\ njoined = NumWorkers
    /\ phase' = "done"
    /\ UNCHANGED <<notRun, mode, osm, census, todo, storages, result_cs, njoined, iter, written>>

NextRun ==
    \/ FindVertice
    \/ CsvInsertWay
    \/ CsvDone
    \/ \E k \in Workers : GpkgWorker(k)
    \/ GpkgReaderDone
    \/ GpkgJoinThread
    \/ GpkgDrain
    \/ GpkgDone

SpecRun == InitRun /\ [][NextRun]_vars

----------------------------------------------------------------------------
(* The census alone: find_vertice on a file of any ways and nodes *)

CensusWays ==
    {[id |-> 7, nodes |-> ns, tags |-> Tags(hw, None, None)] :
        ns \in NodeLists(Nodes, 0, MaxWayLen),
        hw \in {Some("primary"), Some("proposed"), None}}

\* osm is a file of the ways of prefix and at most k ways more
RECURSIVE CensusFile(_, _)
CensusFile(prefix, k) ==
    \/ \E ns \in SUBSET Nodes : osm = [ways |-> prefix, nodes |-> ns]
    \/ /\ k > 0
       /\ \E w \in CensusWays : CensusFile(Append(prefix, w), k - 1)

InitCensus ==
    /\ IdleStorage /\ IdleGraph /\ IdleRoute /\ IdlePipe /\ IdleReader /\ IdleWriter
    /\ mode = "csv"
    /\ CensusFile(<<>>, MaxCensusWays)
    /\ census = [panic |-> FALSE, vertice |-> {}, node_coords |-> {}, used_nodes |-> <<>>]
    /\ phase = "census"
    /\ todo = 1
    /\ storages = <<>>
    /\ result_cs = [vertice |-> {}, edges |-> <<>>]
    /\ njoined = 0
    /\ iter = <<>>
    /\ written = <<>>

SpecCensus == InitCensus /\ [][FindVertice]_vars

\* the ways of the file with a recognised highway tag
Roads == {k \in DOMAIN osm.ways : parse_road_cat(osm.ways[k].tags.highway) # None}

\* the places n occurs at in the roads, and those of them in a way's interior
Places(n) ==
    {<<k, i>> \in Roads \X (1..MaxWayLen) :
        i <= Len(osm.ways[k].nodes) /\ osm.ways[k].nodes[i] = n}
InteriorPlaces(n) ==
    {p \in Places(n) : 1 < p[2] /\ p[2] < Len(osm.ways[p[1]].nodes)}

Total(n) == Cardinality(Places(n)) + Cardinality(InteriorPlaces(n))

\* C9: when find_vertice returns, the counted nodes are those of the roads,
\* each counted once per occurrence and once more per interior occurrence; the
\* vertices are the counted nodes whose total is not 2; a coordinate is kept
\* for exactly the counted nodes the file has a node element of
C9_Census ==
    (phase = "run") =>
        /\ DOMAIN census.used_nodes = {n \in Nodes : Places(n) # {}}
        /\ \A n \in DOMAIN census.used_nodes : census.used_nodes[n] = Total(n)
        /\ census.vertice = {n \in Nodes : Places(n) # {} /\ Total(n) # 2}
        /\ census.node_coords = {n \in osm.nodes : Places(n) # {}}

\* the census of the roads [1, 2, 3] and [3, 1, 3]: nodes 1 and 3 are vertices,
\* node 2, inside one way only, is not, and the file has no element of node 3
C9_Witness ==
    /\ phase = "run"
    /\ Len(osm.ways) = 2 /\ Roads = {1, 2}
    /\ osm.ways[1].nodes = <<1, 2, 3>> /\ osm.ways[2].nodes = <<3, 1, 3>>
    /\ census.used_nodes = <<3, 2, 3>>
    /\ census.vertice = {1, 3}
    /\ osm.nodes = {1, 2} /\ census.node_coords = {1, 2}

----------------------------------------------------------------------------
(* Properties of the extraction run (SpecRun) *)

\* how many times the segment {a, b} occurs in the node lists of chains
Occurrences(chains, a, b) ==
    Cardinality({<<k, i>> \in (DOMAIN chains) \X (1..(MaxWayLen * MaxWays * 2)) :
                    /\ i < Len(chains[k].nodes)
                    /\ {chains[k].nodes[i], chains[k].nodes[i + 1]} = {a, b}})

\* the vertex set at the end: the census's and every promotion of a storage
FinalVertice ==
    census.vertice \cup result_cs.vertice
        \cup UNION {storages[k].vertice : k \in DOMAIN storages}

\* no segment occurs twice in the ways of the file
DistinctSegments ==
    \A a, b \in RunNodes : Occurrences(osm.ways, a, b) <= 1

\* the nodes a way segment joins n to
Adjacent(n) == {m \in RunNodes : Occurrences(osm.ways, n, m) >= 1}

\* the nodes that the ways join to the nodes of S
RECURSIVE Reach(_)
Reach(S) ==
    LET T == S \cup UNION {Adjacent(n) : n \in S}
    IN  IF T = S THEN S ELSE Reach(T)

\* every way is joined to a vertex of the census: no ring of ways stands alone
EveryWayReachesAVertex ==
    \A k \in DOMAIN osm.ways :
        Reach({osm.ways[k].nodes[1]}) \cap census.vertice # {}

\* C1: at the end of a run every segment of every way is in exactly one
\* emitted edge, exactly once (of a file that names no segment twice and has
\* no ring of ways without any vertex, which no edge between vertices can hold)
C1_EverySegmentOnce ==
    (phase = "done" /\ DistinctSegments /\ EveryWayReachesAVertex) =>
        \A k \in DOMAIN osm.ways : \A i \in 1..(Len(osm.ways[k].nodes) - 1) :
            Occurrences(written, osm.ways[k].nodes[i], osm.ways[k].nodes[i + 1]) = 1

\* C3: no interior node of an emitted edge is in the final vertex set
C3_NoInteriorVertex ==
    phase = "done" =>
        \A k \in DOMAIN written : \A i \in 2..(Len(written[k].nodes) - 1) :
            written[k].nodes[i] \notin FinalVertice

-----------------------------------------------------------------------------
(* src/route/src/objects.rs and graph.rs: Cost, Edge, Vertex, Graph.       *)
(* A Cost and a Weight are the integers they wrap, a graph is the map       *)
(* Graph.vertice, a LineString is the sequence of its points.              *)

\* impl Add<Weight> for Cost
Cost_add(cost, weight) == cost + weight

Edge(v1, v2, weight, geom) ==
    [v1 |-> v1, v2 |-> v2, weight |-> weight, geom |-> geom]

\* VertexScore::new
VertexScore_new(vid, from, cost_before, cost_remain) ==
    [vid |-> vid, from |-> from, cost_before |-> cost_before,
     cost_remain |-> cost_remain, total_cost |-> cost_before + cost_remain,
     visit_number |-> -1]

\* Graph::new
Graph_new == <<>>

\* the first half of Graph::add_edge: the vertex of edge.v1 is created with
\* the first point of the geometry if it is new, and the edge is pushed
push_edge(g, edge) ==
    LET vid == edge.v1
        v == IF vid \in DOMAIN g THEN g[vid]
             ELSE [id |-> vid, edges |-> <<>>, geom |-> edge.geom[1]]
        v2 == [v EXCEPT !.edges = Append(@, edge)]
    IN  [x \in DOMAIN g \cup {vid} |-> IF x = vid THEN v2 ELSE g[x]]

\* a slip: the swapped edge keeps the geometry of the edge as it came
add_edge_same_geom(g, edge, bidirectional) ==
    LET g1 == push_edge(g, edge)
        ee == [edge EXCEPT !.v1 = edge.v2, !.v2 = edge.v1]
    IN  IF bidirectional THEN push_edge(g1, ee) ELSE g1

\* Graph::add_edge: with bidirectional, the edge with its ends swapped and
\* its geometry reversed is added too, by add_edge(ee, false)
add_edge(g, edge, bidirectional) ==
    LET g1 == push_edge(g, edge)
        ee == [edge EXCEPT !.v1 = edge.v2, !.v2 = edge.v1, !.geom = Reverse(edge.geom)]
    IN  IF bidirectional THEN push_edge(g1, ee) ELSE g1

-----------------------------------------------------------------------------
(* src/route/src/isochrone.rs: Isochrone::try_new, one turn of its loop    *)
(* at a time                                                               *)

\* the cost with which a neighbour is scored
relaxed_cost_hop(vs, e) == e.weight

relaxed_cost(vs, e) == Cost_add(vs.cost_before, e.weight)

\* a slip: a neighbour at max_dist itself is pushed too
within_inclusive(md, cost_before) == md >= cost_before \/ md = 0

\* max_dist > &other_score.cost_before || max_dist.0 == 0
within(md, cost_before) == md > cost_before \/ md = 0

\* the for loop over the edges of the settled vertex, from edge i on
RECURSIVE relax(_, _, _, _, _, _)
relax(h, distances, vs, es, md, i) ==
    IF i > Len(es) THEN h
    ELSE LET e == es[i]
             other_id == e.v2
             other_score == VertexScore_new(other_id, vs.vid, relaxed_cost(vs, e), 0)
             h2 == IF other_id \notin DOMAIN distances
                       /\ within(md, other_score.cost_before)
                   THEN h (+) SetToBag({other_score})
                   ELSE h
         IN  relax(h2, distances, vs, es, md, i + 1)

\* what BinaryHeap::pop may return: VertexScore is ordered by total_cost
\* reversed, and the heap does not say which of several equal maxima it yields
poppable(h) ==
    {vs \in BagToSet(h) : \A o \in BagToSet(h) : vs.total_cost <= o.total_cost}

\* max_dist.unwrap_or(&Cost(0))
unwrap_or(o, d) == IF o = None THEN d ELSE o[1]

-----------------------------------------------------------------------------
(* A graph built by add_edge(edge, true) as parse_csv builds it, then one  *)
(* Isochrone::try_new                                                      *)

Vertices == 1..MaxVertex
Weights == {0, 1, MaxWeight}
MaxDists == {None} \cup {Some(m) : m \in 0..MaxDist} \cup {Some(TestMaxDist)}

\* the point of a vertex
Pt(v) == <<v, 0>>

\* the undirected edges added so far: each one gave two directed edges
NumEdges(g) ==
    LET RECURSIVE total(_)
        total(S) == IF S = {} THEN 0
                    ELSE LET v == CHOOSE x \in S : TRUE
                         IN  Len(g[v].edges) + total(S \ {v})
    IN  total(DOMAIN g) \div 2

InitIso ==
    /\ IdleStorage /\ IdleRun /\ IdleRoute /\ IdlePipe /\ IdleReader /\ IdleWriter
    /\ graph = Graph_new
    /\ heap = EmptyBag
    /\ iso = [source |-> 0, distances |-> <<>>]
    /\ max_dist = None
    /\ ipc = "build"

\* one row of the CSV: g.add_edge(Edge { v1, v2, geom, weight }, true)
AddEdge ==
    /\ ipc = "build"
    /\ NumEdges(graph) < MaxEdges
    /\ \E v1 \in Vertices, v2 \in Vertices, w \in Weights :
        /\ v1 <= v2
        /\ graph' = add_edge(graph, Edge(v1, v2, w, <<Pt(v1), Pt(v2)>>), TRUE)
    /\ UNCHANGED <<notGraph, heap, iso, max_dist, ipc>>

\* test_isochrone: the graph
\*   1---2---4---6---8---10
\*       |   |   |   |
\*       3---5   7---9---11
TestEdges ==
    <<<<1, 2>>, <<2, 3>>, <<2, 4>>, <<3, 5>>, <<4, 6>>, <<6, 7>>, <<6, 8>>,
      <<7, 9>>, <<8, 9>>, <<8, 10>>, <<9, 11>>>>

\* the loop of test_isochrone over the first k edges
RECURSIVE TestGraphOf(_)
TestGraphOf(k) ==
    IF k = 0 THEN Graph_new
    ELSE add_edge(TestGraphOf(k - 1),
                  Edge(TestEdges[k][1], TestEdges[k][2], TestWeight, <<<<0, 0>>, <<1, 1>>>>),
                  TRUE)

TestGraph == TestGraphOf(Len(TestEdges))

\* test_isochrone builds its graph
BuildTestGraph ==
    /\ ipc = "build"
    /\ graph = Graph_new
    /\ graph' = TestGraph
    /\ UNCHANGED <<notGraph, heap, iso, max_dist, ipc>>

\* Isochrone::try_new up to the loop: an error if the source is not in the
\* graph, else the heap holds the score of the source
try_new_start ==
    \E source \in Vertices, md \in MaxDists :
        /\ max_dist' = md
        /\ iso' = [source |-> source, distances |-> <<>>]
        /\ IF source \notin DOMAIN graph
           THEN ipc' = "err" /\ heap' = heap
           ELSE /\ ipc' = "loop"
                /\ heap' = SetToBag({VertexScore_new(source, source, 0, 0)})

IsoStart == ipc = "build" /\ try_new_start /\ UNCHANGED <<notGraph, graph>>

\* one turn of the while loop, and the return when the heap is left empty
IsoStep ==
    /\ ipc = "loop"
    /\ \E vs \in poppable(heap) :
        LET popped == heap (-) SetToBag({vs})
            distances == [x \in DOMAIN iso.distances \cup {vs.vid} |->
                            IF x = vs.vid THEN vs.cost_before ELSE iso.distances[x]]
            h == relax(popped, distances, vs, graph[vs.vid].edges,
                       unwrap_or(max_dist, 0), 1)
        IN  IF vs.vid \in DOMAIN iso.distances
            THEN /\ heap' = popped
                 /\ iso' = iso
                 /\ ipc' = IF popped = EmptyBag THEN "ok" ELSE "loop"
            ELSE IF vs.vid \notin DOMAIN graph
            THEN /\ heap' = popped
                 /\ iso' = [iso EXCEPT !.distances = distances]
                 /\ ipc' = "panic"
            ELSE /\ heap' = h
                 /\ iso' = [iso EXCEPT !.distances = distances]
                 /\ ipc' = IF h = EmptyBag THEN "ok" ELSE "loop"
    /\ UNCHANGED <<notGraph, graph, max_dist>>

NextIso == AddEdge \/ BuildTestGraph \/ IsoStart \/ IsoStep

SpecIso == InitIso /\ [][NextIso]_vars

-----------------------------------------------------------------------------
(* Properties of the search (SpecIso) *)

\* the directed edges of a graph as triples <<from, to, weight>>
Arcs(g) ==
    UNION {{<<v, g[v].edges[i].v2, g[v].edges[i].weight>> : i \in 1..Len(g[v].edges)} :
           v \in DOMAIN g}

\* one round of relaxation of every arc on a table of tentative distances
Round(g, d) ==
    LET into(v) == {d[a[1]] + a[3] : a \in {b \in Arcs(g) : b[1] \in DOMAIN d /\ b[2] = v}}
        known(v) == IF v \in DOMAIN d THEN {d[v]} ELSE {}
        reached == DOMAIN d \cup {a[2] : a \in {b \in Arcs(g) : b[1] \in DOMAIN d}}
    IN  [v \in reached |-> Min(known(v) \cup into(v))]

\* the least total weight of a path from s to every vertex a path leads to:
\* as many rounds as there are vertices settle every path
RECURSIVE Rounds(_, _, _)
Rounds(g, d, k) == IF k = 0 THEN d ELSE Rounds(g, Round(g, d), k - 1)

ShortestFrom(g, s) == Rounds(g, [v \in {s} |-> 0], Cardinality(DOMAIN g) + 1)

Unbounded == max_dist = None \/ max_dist = Some(0)

\* C10: Isochrone::try_new with max_dist absent or Cost(0) returns a table
\* whose keys are exactly the vertices a path leads to from the source and
\* whose values are the least total weights of such paths; the source is at 0
C10_UnboundedIsochrone ==
    (ipc = "ok" /\ Unbounded) =>
        /\ iso.distances = ShortestFrom(graph, iso.source)
        /\ iso.distances[iso.source] = 0

\* an unbounded search from 1 has returned on the triangle whose side 1-3
\* weighs 3 and whose sides 1-2 and 2-3 weigh 1: vertex 3 is at 2, by way of 2
C10_Witness ==
    /\ ipc = "ok" /\ max_dist = None /\ iso.source = 1
    /\ Arcs(graph) = {<<1, 2, 1>>, <<2, 1, 1>>, <<2, 3, 1>>, <<3, 2, 1>>,
                      <<1, 3, MaxWeight>>, <<3, 1, MaxWeight>>}
    /\ iso.distances = (1 :> 0) @@ (2 :> 1) @@ (3 :> 2)

-----------------------------------------------------------------------------
(* src/route/src/bin/astar.rs: AstarRouter::shortest_path, one half of a   *)
(* turn of its loop at a time                                              *)

\* the integer part of a square root
Isqrt(n) == CHOOSE r \in 0..n : r * r <= n /\ n < (r + 1) * (r + 1)

\* a.euclidean_distance(&b) as i64, for points of integer coordinates
euclidean_distance(a, b) ==
    Isqrt((a[1] - b[1]) * (a[1] - b[1]) + (a[2] - b[2]) * (a[2] - b[2]))

\* VertexScore::new(vtx2.id, vs.vid, vs.cost_before + e.weight,
\*                  Cost(vtx2.geom.euclidean_distance(&goal.geom) as i64))
astar_score(g, vs, e, goal) ==
    VertexScore_new(g[e.v2].id, vs.vid, Cost_add(vs.cost_before, e.weight),
                    euclidean_distance(g[e.v2].geom, goal))

\* a slip: no neighbour is pushed
astar_relax_none(g, h, seen, vs, goal, i) == [panic |-> FALSE, heap |-> h]

\* the for loop over the edges of the settled vertex, from edge i on: the
\* heap h after it, or a panic when an edge leads to no vertex of the graph
RECURSIVE astar_relax(_, _, _, _, _, _)
astar_relax(g, h, seen, vs, goal, i) ==
    LET es == g[vs.vid].edges
    IN  IF i > Len(es) THEN [panic |-> FALSE, heap |-> h]
        ELSE LET e == es[i]
             IN  IF e.v2 \notin DOMAIN g THEN [panic |-> TRUE, heap |-> h]
                 ELSE astar_relax(g,
                          IF e.v2 \notin DOMAIN seen
                          THEN h (+) SetToBag({astar_score(g, vs, e, goal)})
                          ELSE h,
                          seen, vs, goal, i + 1)

\* a slip: the half does not look into the other direction's visited map
astar_half_blind(g, h, mine, theirs, number, goal, popped_vs) ==
    LET vs == [popped_vs EXCEPT !.visit_number = number]
        popped == h (-) SetToBag({popped_vs})
        settled == [x \in DOMAIN mine \cup {vs.vid} |-> IF x = vs.vid THEN vs ELSE mine[x]]
        relaxed == astar_relax(g, popped, settled, vs, goal, 1)
    IN  IF vs.vid \in DOMAIN mine
        THEN [end |-> "continue", heap |-> popped, visited_ |-> mine, vid |-> vs.vid]
        ELSE IF vs.vid \notin DOMAIN g \/ relaxed.panic
        THEN [end |-> "panic", heap |-> popped, visited_ |-> settled, vid |-> vs.vid]
        ELSE [end |-> "next", heap |-> relaxed.heap, visited_ |-> settled, vid |-> vs.vid]

\* one direction's half of a turn: pop, number, settle, meet or relax. mine
\* and theirs are the visited maps of this direction and of the other, goal
\* is the point the direction heads for. The result tells how the half ends:
\* "continue", "return", "panic" or "next"
astar_half(g, h, mine, theirs, number, goal, popped_vs) ==
    LET vs == [popped_vs EXCEPT !.visit_number = number]
        popped == h (-) SetToBag({popped_vs})
        settled == [x \in DOMAIN mine \cup {vs.vid} |-> IF x = vs.vid THEN vs ELSE mine[x]]
        relaxed == astar_relax(g, popped, settled, vs, goal, 1)
    IN  IF vs.vid \in DOMAIN mine
        THEN [end |-> "continue", heap |-> popped, visited_ |-> mine, vid |-> vs.vid]
        ELSE IF vs.vid \in DOMAIN theirs
        THEN [end |-> "return", heap |-> popped, visited_ |-> settled, vid |-> vs.vid]
        ELSE IF vs.vid \notin DOMAIN g \/ relaxed.panic
        THEN [end |-> "panic", heap |-> popped, visited_ |-> settled, vid |-> vs.vid]
        ELSE [end |-> "next", heap |-> relaxed.heap, visited_ |-> settled, vid |-> vs.vid]

-----------------------------------------------------------------------------
(* A graph of roads between vertices that have a place, built by           *)
(* add_edge(edge, true), then one AstarRouter::shortest_path               *)

RoadWeights == 1..MaxWeight

\* where the vertices are: all at one point, along a line, or on a grid
Layouts ==
    {[v \in Vertices |-> <<0, 0>>],
     [v \in Vertices |-> <<v, 0>>],
     [v \in Vertices |-> <<v % 2, v \div 2>>]}

\* the roads of a graph as pairs of ends, smaller end first
Roads_of(g) ==
    LET arcs == UNION {{<<v, g[v].edges[i].v2>> : i \in 1..Len(g[v].edges)} : v \in DOMAIN g}
    IN  {a \in arcs : a[1] <= a[2]}

\* the rows of the CSV are taken in the order of their pairs of ends
InOrder(a, b) == a[1] < b[1] \/ (a[1] = b[1] /\ a[2] <= b[2])

InitRoute ==
    /\ IdleStorage /\ IdleRun /\ IdleGraph /\ IdlePipe /\ IdleReader /\ IdleWriter
    /\ route = [source |-> 0, target |-> 0]
    /\ forward_heap = EmptyBag /\ backward_heap = EmptyBag
    /\ forward_visited = <<>> /\ backward_visited = <<>>
    /\ visit_number = 0
    /\ meet_vertex = 0
    /\ landmark_dist = <<>> /\ visited = <<>> /\ path_out = <<>>
    /\ rpc = "build"

\* one row of the CSV: g.add_edge(Edge { v1, v2, geom, weight }, true), the
\* geometry running from the place of v1 to the place of v2; the vertices are
\* drawn from Vs, placed by a layout of Ls, the weight from Ws, and the file
\* has at most maxE rows
AddRoadIn(Ls, Vs, Ws, maxE) ==
    /\ rpc = "build"
    /\ NumEdges(graph) < maxE
    /\ \E L \in Ls, v1 \in Vs, v2 \in Vs, w \in Ws :
        /\ \A v \in DOMAIN graph : graph[v].geom = L[v]
        /\ v1 <= v2
        /\ \A r \in Roads_of(graph) : InOrder(r, <<v1, v2>>)
        /\ graph' = add_edge(graph, Edge(v1, v2, w, <<L[v1], L[v2]>>), TRUE)
    /\ UNCHANGED <<notRoute, heap, rvars>>

AddRoad == AddRoadIn(Layouts, Vertices, RoadWeights, MaxEdges)

\* AstarRouter::shortest_path up to the loop, called with a source and a target
\* of Vs: vertice.get(..).unwrap() panics on a source or target that is no
\* vertex, else each heap gets its seed
AstarStartIn(Vs) ==
    /\ rpc = "build"
    /\ \E source \in Vs, target \in Vs :
        /\ route' = [source |-> source, target |-> target]
        /\ IF source \notin DOMAIN graph \/ target \notin DOMAIN graph
           THEN /\ rpc' = "panic"
                /\ UNCHANGED <<forward_heap, backward_heap>>
           ELSE LET dist == euclidean_distance(graph[source].geom, graph[target].geom)
                IN  /\ forward_heap' = SetToBag({VertexScore_new(source, source, 0, dist)})
                    /\ backward_heap' = SetToBag({VertexScore_new(target, target, 0, dist)})
                    /\ rpc' = "fwd"
    /\ UNCHANGED <<notRoute, heap, graph, forward_visited, backward_visited,
                   visit_number, meet_vertex, landmark_dist, visited, path_out>>

AstarStart == AstarStartIn(Vertices)

\* the test of the while loop and the forward half of a turn
AstarForward ==
    /\ rpc = "fwd"
    /\ IF forward_heap = EmptyBag \/ backward_heap = EmptyBag
       THEN /\ rpc' = "noroute"
            /\ UNCHANGED <<forward_heap, forward_visited, visit_number, meet_vertex>>
       ELSE \E vs \in poppable(forward_heap) :
            LET r == astar_half(graph, forward_heap, forward_visited, backward_visited,
                                visit_number, graph[route.target].geom, vs)
            IN  /\ forward_heap' = r.heap
                /\ forward_visited' = r.visited_
                /\ visit_number' = visit_number + 1
                /\ meet_vertex' = IF r.end = "return" THEN r.vid ELSE meet_vertex
                /\ rpc' = CASE r.end = "continue" -> "fwd"
                            [] r.end = "return" -> "ok"
                            [] r.end = "panic" -> "panic"
                            [] OTHER -> "bwd"
    /\ UNCHANGED <<notRoute, heap, graph, route, backward_heap, backward_visited,
                   landmark_dist, visited, path_out>>

\* the backward half of a turn
AstarBackward ==
    /\ rpc = "bwd"
    /\ \E vs \in poppable(backward_heap) :
        LET r == astar_half(graph, backward_heap, backward_visited, forward_visited,
                            visit_number, graph[route.source].geom, vs)
        IN  /\ backward_heap' = r.heap
            /\ backward_visited' = r.visited_
            /\ visit_number' = visit_number + 1
            /\ meet_vertex' = IF r.end = "return" THEN r.vid ELSE meet_vertex
            /\ rpc' = CASE r.end = "continue" -> "fwd"
                        [] r.end = "return" -> "ok"
                        [] r.end = "panic" -> "panic"
                        [] OTHER -> "fwd"
    /\ UNCHANGED <<notRoute, heap, graph, route, forward_heap, forward_visited,
                   landmark_dist, visited, path_out>>

NextAstar == AddRoad \/ AstarStart \/ AstarForward \/ AstarBackward

SpecAstar == InitRoute /\ [][NextAstar]_vars

-----------------------------------------------------------------------------
(* src/route/src/isochrone.rs: Isochrone::try_new as a function, for the   *)
(* callers that run it to its end. Which of several equal minima the heap  *)
(* yields first is fixed here by CHOOSE.                                   *)

RECURSIVE try_new_loop(_, _, _, _)
try_new_loop(g, h, distances, md) ==
    IF h = EmptyBag THEN distances
    ELSE LET vs == CHOOSE x \in poppable(h) : TRUE
             popped == h (-) SetToBag({vs})
             settled == [x \in DOMAIN distances \cup {vs.vid} |->
                            IF x = vs.vid THEN vs.cost_before ELSE distances[x]]
         IN  IF vs.vid \in DOMAIN distances
             THEN try_new_loop(g, popped, distances, md)
             ELSE try_new_loop(g, relax(popped, settled, vs, g[vs.vid].edges, md, 1),
                               settled, md)

\* None for Err (the source is no vertex), else Some of the Isochrone
try_new(g, source, md) ==
    IF source \notin DOMAIN g THEN None
    ELSE Some([source |-> source,
               distances |-> try_new_loop(g, SetToBag({VertexScore_new(source, source, 0, 0)}),
                                          <<>>, unwrap_or(md, 0))])

-----------------------------------------------------------------------------
(* src/route/src/bin/alt.rs: AltRouter *)

LANDMARKS == 16

\* the sum of the numbers f(x) for x in S
RECURSIVE Sum(_, _)
Sum(f, S) == IF S = {} THEN 0
             ELSE LET x == CHOOSE y \in S : TRUE IN f[x] + Sum(f, S \ {x})

\* the vector from the center (the mean of the vertices' points) to the point
\* of v, times the number of vertices, which keeps it in integers
from_center(g, v) ==
    LET n == Cardinality(DOMAIN g)
        xs == [u \in DOMAIN g |-> g[u].geom[1]]
        ys == [u \in DOMAIN g |-> g[u].geom[2]]
    IN  <<n * g[v].geom[1] - Sum(xs, DOMAIN g), n * g[v].geom[2] - Sum(ys, DOMAIN g)>>

\* which quarter of a right angle the direction (dx, dy) is in, dx > 0, dy >= 0:
\* the tangents of 22.5 and 67.5 degrees are sqrt 2 - 1 and sqrt 2 + 1
quarter(dx, dy) ==
    IF (dx + dy) * (dx + dy) < 2 * dx * dx THEN 0
    ELSE IF dy < dx THEN 1
    ELSE IF (dy - dx) * (dy - dx) < 2 * dx * dx THEN 2
    ELSE 3

\* (bearing / sector_width) as usize, the bearing being atan2(dy, dx) in
\* degrees brought into [0, 360)
sector(d) ==
    LET dx == d[1]
        dy == d[2]
    IN  IF dx = 0 /\ dy = 0 THEN 0
        ELSE IF dx > 0 /\ dy >= 0 THEN quarter(dx, dy)
        ELSE IF dx <= 0 /\ dy > 0 THEN 4 + quarter(dy, -dx)
        ELSE IF dx < 0 /\ dy <= 0 THEN 8 + quarter(-dx, -dy)
        ELSE 12 + quarter(-dy, dx)

\* the square of the distance to the center, in the units of from_center
dist2(d) == d[1] * d[1] + d[2] * d[2]

\* the vertices that the loop of new can leave in farthest[k]: the sector's
\* vertices off the center that no vertex of the sector is farther than. The
\* loop keeps the first of equals, and the HashMap does not say which is first
farthest_in(g, k) ==
    {v \in DOMAIN g :
        /\ sector(from_center(g, v)) = k
        /\ dist2(from_center(g, v)) > 0
        /\ \A u \in DOMAIN g : sector(from_center(g, u)) = k =>
                dist2(from_center(g, u)) <= dist2(from_center(g, v))}

\* the isochrones of the landmarks marks[k], sector by sector from sector k
\* on; -1 stands in a sector without a vertex and gives no isochrone
RECURSIVE isochrones(_, _, _)
isochrones(g, marks, k) ==
    IF k >= LANDMARKS THEN <<>>
    ELSE LET i == try_new(g, marks[k], None)
         IN  (IF i = None THEN <<>> ELSE <<i[1]>>) \o isochrones(g, marks, k + 1)

\* the table built from the isochrones: a panic on iso[0] when there is none,
\* and on the unwrap when a key of the first is missing in another
landmark_table(iso_) ==
    IF iso_ = <<>> THEN [panic |-> TRUE, landmark_dist |-> <<>>]
    ELSE IF \E k \in DOMAIN iso_[1].distances, i \in 1..Len(iso_) :
                k \notin DOMAIN iso_[i].distances
    THEN [panic |-> TRUE, landmark_dist |-> <<>>]
    ELSE [panic |-> FALSE,
          landmark_dist |-> [k \in DOMAIN iso_[1].distances |->
                                [i \in 1..Len(iso_) |-> iso_[i].distances[k]]]]

Abs(x) == IF x < 0 THEN -x ELSE x

\* AltRouter::estimate: a vertex missing from the table counts as LANDMARKS
\* zeros, and zip stops at the shorter of the two vectors
estimate(table, v, target) ==
    LET l0 == [i \in 1..LANDMARKS |-> 0]
        x1 == IF v \in DOMAIN table THEN table[v] ELSE l0
        x2 == IF target \in DOMAIN table THEN table[target] ELSE l0
        delta == {Abs(x2[i] - x1[i]) : i \in 1..Min({Len(x1), Len(x2)})}
    IN  IF delta = {} THEN 0 ELSE CHOOSE m \in delta : \A o \in delta : o <= m

-----------------------------------------------------------------------------
(* A graph of roads, then AltRouter::new and one AltRouter::shortest_path *)

astar_vars == <<forward_heap, backward_heap, forward_visited, backward_visited, meet_vertex>>

\* AltRouter::new: the landmarks, their isochrones, the table
AltNew ==
    /\ rpc = "build"
    /\ \E first \in [{k \in 0..(LANDMARKS - 1) : farthest_in(graph, k) # {}} -> DOMAIN graph] :
        /\ \A k \in DOMAIN first : first[k] \in farthest_in(graph, k)
        /\ LET marks == [k \in 0..(LANDMARKS - 1) |->
                            IF k \in DOMAIN first THEN first[k] ELSE -1]
               t == landmark_table(isochrones(graph, marks, 0))
           IN  /\ landmark_dist' = t.landmark_dist
               /\ rpc' = IF t.panic THEN "panic" ELSE "alt"
    /\ UNCHANGED <<notRoute, heap, graph, route, astar_vars, visit_number, visited, path_out>>

\* AltRouter::shortest_path up to the loop
AltStart ==
    /\ rpc = "alt"
    /\ \E source \in Vertices, target \in Vertices :
        /\ route' = [source |-> source, target |-> target]
        /\ heap' = SetToBag({VertexScore_new(source, source, 0,
                                estimate(landmark_dist, source, target))})
    /\ rpc' = "alt_loop"
    /\ UNCHANGED <<notRoute, graph, astar_vars, visit_number, visited, landmark_dist, path_out>>

\* a slip: the cost of the way to the settled vertex is left out
alt_score_hop(vs, e, table, target) ==
    VertexScore_new(e.v2, vs.vid, e.weight, estimate(table, e.v2, target))

\* VertexScore::new(e.v2, vs.vid, vs.cost_before + e.weight, self.estimate(&e.v2, target))
alt_score(vs, e, table, target) ==
    VertexScore_new(e.v2, vs.vid, Cost_add(vs.cost_before, e.weight),
                    estimate(table, e.v2, target))

\* the for loop over the edges of the settled vertex, from edge i on
RECURSIVE alt_relax(_, _, _, _, _, _, _)
alt_relax(h, seen, vs, es, table, target, i) ==
    IF i > Len(es) THEN h
    ELSE LET e == es[i]
             vs2 == alt_score(vs, e, table, target)
         IN  alt_relax(IF e.v2 \notin DOMAIN seen THEN h (+) SetToBag({vs2}) ELSE h,
                       seen, vs, es, table, target, i + 1)

\* the test of the while loop and one turn of it
AltStep ==
    /\ rpc = "alt_loop"
    /\ IF heap = EmptyBag
       THEN /\ rpc' = "alt_noroute"
            /\ UNCHANGED <<heap, visited, visit_number>>
       ELSE \E popped_vs \in poppable(heap) :
            LET vs == [popped_vs EXCEPT !.visit_number = visit_number]
                popped == heap (-) SetToBag({popped_vs})
                settled == [x \in DOMAIN visited \cup {vs.vid} |->
                                IF x = vs.vid THEN vs ELSE visited[x]]
            IN  /\ visit_number' = visit_number + 1
                /\ IF vs.vid \in DOMAIN visited
                   THEN heap' = popped /\ visited' = visited /\ rpc' = "alt_loop"
                   ELSE IF vs.vid = route.target
                   THEN heap' = popped /\ visited' = settled /\ rpc' = "alt_ok"
                   ELSE IF vs.vid \notin DOMAIN graph
                   THEN heap' = popped /\ visited' = settled /\ rpc' = "alt_err"
                   ELSE /\ heap' = alt_relax(popped, settled, vs, graph[vs.vid].edges,
                                             landmark_dist, route.target, 1)
                        /\ visited' = settled
                        /\ rpc' = "alt_loop"
    /\ UNCHANGED <<notRoute, graph, route, astar_vars, landmark_dist, path_out>>

NextAlt == AddRoad \/ AltNew \/ AltStart \/ AltStep

SpecAlt == InitRoute /\ [][NextAlt]_vars

-----------------------------------------------------------------------------
(* Properties of AltRouter::shortest_path (SpecAlt) *)

\* OnewayPath::cost of the path returned
OnewayPath_cost == visited[route.target].cost_before

\* every vertex is reached from every vertex
Connected(g) == \A v \in DOMAIN g : DOMAIN ShortestFrom(g, v) = DOMAIN g

\* C13: on a connected graph of edges added in both directions, the cost of
\* the path AltRouter::shortest_path returns is the least total weight of a
\* path from source to target
C13_AltOptimal ==
    (rpc = "alt_ok" /\ Connected(graph)
        /\ route.source \in DOMAIN graph /\ route.target \in DOMAIN graph) =>
        OnewayPath_cost = ShortestFrom(graph, route.source)[route.target]

\* on the line of the vertices 1, 2, 3 with roads 1-2 and 2-3 of weight 1 and
\* a road 1-3 of weight 3, the route from 1 to 3 is returned: it comes by 2
\* and costs 2
C13_Witness ==
    /\ rpc = "alt_ok" /\ route = [source |-> 1, target |-> 3]
    /\ \A v \in DOMAIN graph : graph[v].geom = <<v, 0>>
    /\ Arcs(graph) = {<<1, 2, 1>>, <<2, 1, 1>>, <<2, 3, 1>>, <<3, 2, 1>>,
                      <<1, 3, 3>>, <<3, 1, 3>>}
    /\ landmark_dist # <<>>
    /\ visited[3].from = 2 /\ OnewayPath_cost = 2

-----------------------------------------------------------------------------
(* src/route/src/graph.rs: Graph::get_edge and BidirPath. A BidirPath is   *)
(* [forward_visited, backward_visited, meet_vertex, graph]; a Result is    *)
(* [end, val] with end "ok", "err" (RoutingError::Programming) or "loop"   *)
(* (the call never returns)                                                *)

Ok(x) == [end |-> "ok", val |-> x]
Err_Programming == [end |-> "err", val |-> <<>>]
Never_returns == [end |-> "loop", val |-> <<>>]

\* Graph::get_edge: the first edge of a that leads to b
get_edge(g, a, b) ==
    IF a \notin DOMAIN g THEN None
    ELSE LET hits == {i \in 1..Len(g[a].edges) : g[a].edges[i].v2 = b}
         IN  IF hits = {} THEN None ELSE Some(g[a].edges[Min(hits)])

\* BidirPath::_collect_vertice, its loop from current_id on with result so
\* far; a walk of more turns than the map has keys is in a cycle and goes on
\* for ever (until the vector exhausts the memory)
RECURSIVE collect(_, _, _, _)
collect(scores, current_id, result, turns) ==
    IF current_id \notin DOMAIN scores THEN Err_Programming
    ELSE LET current_vs == scores[current_id]
         IN  IF current_vs.vid = current_vs.from THEN Ok(result)
             ELSE IF turns > Cardinality(DOMAIN scores) THEN Never_returns
             ELSE collect(scores, current_vs.from, Append(result, current_vs.from), turns + 1)

_collect_vertice(bp, scores) == collect(scores, bp.meet_vertex, <<bp.meet_vertex>>, 0)

\* a slip: the meet vertex is not removed from the backward half
vertice_keep_meet(bp) ==
    LET a == _collect_vertice(bp, bp.forward_visited)
        b == _collect_vertice(bp, bp.backward_visited)
    IN  IF a.end # "ok" THEN a
        ELSE IF b.end # "ok" THEN b
        ELSE Ok(Reverse(a.val) \o b.val)

\* BidirPath::vertice
BidirPath_vertice(bp) ==
    LET a == _collect_vertice(bp, bp.forward_visited)
        b == _collect_vertice(bp, bp.backward_visited)
    IN  IF a.end # "ok" THEN a
        ELSE IF b.end # "ok" THEN b
        ELSE Ok(Reverse(a.val) \o Tail(b.val))

\* the loop of BidirPath::edges over the vertices from index i on
RECURSIVE edges_from(_, _, _)
edges_from(g, vs, i) ==
    IF i > Len(vs) THEN Ok(<<>>)
    ELSE LET e == get_edge(g, vs[i - 1], vs[i])
             rest == edges_from(g, vs, i + 1)
         IN  IF e = None THEN Err_Programming
             ELSE IF rest.end # "ok" THEN rest
             ELSE Ok(<<e[1]>> \o rest.val)

\* BidirPath::edges
BidirPath_edges(bp) ==
    LET vs == BidirPath_vertice(bp)
    IN  IF vs.end # "ok" THEN vs ELSE edges_from(bp.graph, vs.val, 2)

\* a slip: the backward map is not consulted
cost_forward_only(bp) ==
    IF bp.meet_vertex \notin DOMAIN bp.forward_visited THEN Err_Programming
    ELSE Ok(bp.forward_visited[bp.meet_vertex].cost_before)

\* BidirPath::cost
BidirPath_cost(bp) ==
    IF bp.meet_vertex \notin DOMAIN bp.forward_visited THEN Err_Programming
    ELSE IF bp.meet_vertex \notin DOMAIN bp.backward_visited THEN Err_Programming
    ELSE Ok(Cost_add(bp.forward_visited[bp.meet_vertex].cost_before,
                     bp.backward_visited[bp.meet_vertex].cost_before))

\* the BidirPath that AstarRouter::shortest_path returns
Returned ==
    [forward_visited |-> forward_visited, backward_visited |-> backward_visited,
     meet_vertex |-> meet_vertex, graph |-> graph]

-----------------------------------------------------------------------------
(* Properties of AstarRouter::shortest_path (SpecAstar) *)

\* the estimates of both directions never exceed the least path weight to
\* the point they head for
Admissible ==
    /\ \A v \in DOMAIN ShortestFrom(graph, route.target) :
        euclidean_distance(graph[v].geom, graph[route.target].geom)
            <= ShortestFrom(graph, route.target)[v]
    /\ \A v \in DOMAIN ShortestFrom(graph, route.source) :
        euclidean_distance(graph[v].geom, graph[route.source].geom)
            <= ShortestFrom(graph, route.source)[v]

\* C12: when the heuristic is admissible, the cost of the path returned by
\* AstarRouter::shortest_path is the least total weight of a path from source
\* to target
C12_AstarOptimal ==
    (rpc = "ok" /\ Admissible) =>
        BidirPath_cost(Returned) = Ok(ShortestFrom(graph, route.source)[route.target])


\* how many times x is in the sequence q
Count(q, x) == Cardinality({i \in 1..Len(q) : q[i] = x})

-----------------------------------------------------------------------------
(* A BidirPath made by hand, as make_bp of the tests makes one, and the    *)
(* calls of cost(), vertice() and edges() on it                            *)

\* to_hm: a map whose entry of key vid is VertexScore::new(vid, from, c, Cost(0))
VisitedMaps ==
    UNION {[keys -> Vertices] : keys \in SUBSET Vertices}

to_hm(m) == [vid \in DOMAIN m |-> VertexScore_new(vid, m[vid], 0, 0)]

\* the graph of the vertices 1..MaxVertex in a row, each road of weight 1
RECURSIVE RowGraph(_)
RowGraph(k) ==
    IF k <= 1 THEN Graph_new
    ELSE add_edge(RowGraph(k - 1), Edge(k - 1, k, 1, <<Pt(k - 1), Pt(k)>>), TRUE)

InitPath ==
    /\ IdleStorage /\ IdleRun /\ IdlePipe /\ IdleReader /\ IdleWriter
    /\ heap = EmptyBag /\ iso = [source |-> 0, distances |-> <<>>]
    /\ max_dist = None /\ ipc = "idle"
    /\ graph = RowGraph(MaxVertex)
    /\ route = [source |-> 0, target |-> 0]
    /\ forward_heap = EmptyBag /\ backward_heap = EmptyBag
    /\ \E f \in VisitedMaps, b \in VisitedMaps :
        forward_visited = to_hm(f) /\ backward_visited = to_hm(b)
    /\ meet_vertex \in Vertices
    /\ visit_number = 0
    /\ landmark_dist = <<>> /\ visited = <<>> /\ path_out = <<>>
    /\ rpc = "made"

\* bp.cost(), bp.vertice(), bp.edges()
PathCalls ==
    /\ rpc = "made"
    /\ path_out' = [cost |-> BidirPath_cost(Returned),
                    vertice |-> BidirPath_vertice(Returned),
                    edges |-> BidirPath_edges(Returned)]
    /\ rpc' = "called"
    /\ UNCHANGED <<notRoute, heap, graph, route, astar_vars, visit_number,
                   landmark_dist, visited>>

SpecPath == InitPath /\ [][PathCalls]_vars

-----------------------------------------------------------------------------
(* Properties of the calls on a BidirPath (SpecPath) *)

\* the vertices the walk from the meet vertex along the predecessors of a map
\* comes to, in at most k more steps from those of S
RECURSIVE Walk(_, _, _)
Walk(scores, S, k) ==
    IF k = 0 THEN S
    ELSE Walk(scores, S \cup {scores[v].from : v \in S \cap DOMAIN scores}, k - 1)

Chain(scores) == Walk(scores, {meet_vertex}, MaxVertex)

\* the meet vertex or a predecessor on the chain is absent from the map
Broken(scores) == \E v \in Chain(scores) : v \notin DOMAIN scores

\* the chain comes to no seed and to no absent vertex: it runs in a circle
Circular(scores) ==
    /\ ~Broken(scores)
    /\ \A v \in Chain(scores) : scores[v].from # v

-----------------------------------------------------------------------------
(* How AstarRouter::shortest_path ends (SpecAstar) *)

Running == rpc \in {"fwd", "bwd"}
Reachable == route.target \in DOMAIN ShortestFrom(graph, route.source)
BothInGraph == route.source \in DOMAIN graph /\ route.target \in DOMAIN graph

\* what a call for two vertices of the graph can end with
RightEnd ==
    BothInGraph =>
        /\ rpc # "panic"
        /\ rpc = "ok" => Reachable
        /\ rpc = "noroute" =>
            (~Reachable /\ (forward_heap = EmptyBag \/ backward_heap = EmptyBag))

\* every pop counts in visit_number and every turn of the loop pops: a call
\* whose pops are bounded ends. Each direction pops its seed and what it
\* pushed, at most once per edge out of a vertex it settled
PopsBounded == visit_number <= 2 + 4 * NumEdges(graph)

\* a call in its loop can take its next step
CanStep == rpc = "bwd" => backward_heap # EmptyBag

\* C16: for source and target in the graph, AstarRouter::shortest_path ends,
\* with Err(NoRoute) if and only if no path leads from source to target (a
\* heap is empty then), and with a BidirPath whenever a path does
C16_NoRouteIffUnreachable ==
    /\ RightEnd
    /\ PopsBounded
    /\ CanStep

\* the call from 1 to 3 on the graph of the road 1-2 and the ring road 3-3
\* has ended with NoRoute
C16_Witness ==
    /\ rpc = "noroute" /\ route = [source |-> 1, target |-> 3]
    /\ DOMAIN graph = {1, 2, 3}
    /\ \A a \in Arcs(graph) : <<a[1], a[2]>> \in {<<1, 2>>, <<2, 1>>, <<3, 3>>}
    /\ backward_heap = EmptyBag /\ forward_heap # EmptyBag

\* C17: AstarRouter::shortest_path called with a source or a target that is
\* not a vertex of the graph ends with a RoutingError: it does not panic and
\* it returns no path
C17_AbsentEndpointErr ==
    (rpc # "build" /\ ~BothInGraph) => rpc = "noroute"

-----------------------------------------------------------------------------
(* src/route/src/graph.rs: Graph::add_edge(e, true) called with any edges  *)

\* the geometries of an edge from v1 to v2: one point, two points, three points
Geoms(v1, v2) == {<<Pt(v1)>>, <<Pt(v1), Pt(v2)>>, <<Pt(v1), Pt(0), Pt(v2)>>}

\* graph.add_edge(e, true) for an edge of any ends, weight and geometry
AddAnyEdge ==
    /\ ipc = "build"
    /\ NumEdges(graph) < MaxEdges
    /\ \E v1 \in Vertices, v2 \in Vertices, w \in {0, MaxWeight} :
        \E geom \in Geoms(v1, v2) :
            graph' = add_edge(graph, Edge(v1, v2, w, geom), TRUE)
    /\ UNCHANGED <<notGraph, heap, iso, max_dist, ipc>>

SpecGraph == InitIso /\ [][AddAnyEdge]_vars

\* the edges stored in the list of vertex u
Stored(g, u) == {g[u].edges[i] : i \in 1..Len(g[u].edges)}

\* the ids that are an end of a stored edge
Endpoints(g) == UNION {{e.v1, e.v2} : e \in UNION {Stored(g, u) : u \in DOMAIN g}}

\* C18: after any calls of Graph::add_edge(e, true), an edge in the list of
\* vertex u starts at u and ends at a key of graph.vertice whose list holds
\* the edge back to u with the same weight and the geometry reversed, and
\* the vertices are as many as the distinct ids that are an end of an edge
C18_AddEdgeBidirectional ==
    /\ \A u \in DOMAIN graph : \A e \in Stored(graph, u) :
        /\ e.v1 = u
        /\ e.v2 \in DOMAIN graph
        /\ \E r \in Stored(graph, e.v2) :
            r.v1 = e.v2 /\ r.v2 = u /\ r.weight = e.weight /\ r.geom = Reverse(e.geom)
    /\ Cardinality(DOMAIN graph) = Cardinality(Endpoints(graph))
    /\ DOMAIN graph = Endpoints(graph)

\* three edges were added: 2 -> 1 over three points, 2 -> 3 and the loop 3 -> 3
C18_Witness ==
    /\ DOMAIN graph = {1, 2, 3}
    /\ Len(graph[2].edges) = 2 /\ Len(graph[3].edges) = 3 /\ Len(graph[1].edges) = 1
    /\ graph[1].edges[1].geom = <<Pt(1), Pt(0), Pt(2)>>
    /\ graph[2].edges[1].v2 = 1

-----------------------------------------------------------------------------
(* src/graph/src/main-gpkg.rs: the threads and channels of process_graph.  *)
(* The reader is the main thread; a way and a vector of chains are         *)
(* messages without content here.                                          *)

\* capacity of each channel (bounded(10) in the source)
ChanCap == 1

\* the reader yields at most this many roads
MaxPipeWays == 5

\* a worker leaves at most this many chains in its storage
MaxResidual == 1

\* a thread that has ended has dropped what it owned
Ended(t) == t \in {"exited", "panicked"}

\* some Receiver of the way channel is alive: the r1 of process_graph, which
\* is only cloned for the workers and lives to the end of the function, or
\* the r1_ of a worker
r1_alive ==
    \/ main_thread.at \in {"read", "join", "reconcile", "wait"}
    \/ \E i \in Workers : ~Ended(threads[i])

\* some Sender of the way channel is alive: s1, until drop(s1)
s1_alive == main_thread.at = "read"

\* a slip: drop(s2) is forgotten, s2 lives until process_graph returns
s2_never_dropped ==
    \/ main_thread.at \in {"read", "join", "reconcile", "wait"}
    \/ \E i \in Workers : ~Ended(threads[i])

\* some Sender of the edge channel is alive: s2 of process_graph, until
\* drop(s2), or the s2_ of a worker
s2_alive ==
    \/ main_thread.at \in {"read", "join", "reconcile"}
    \/ \E i \in Workers : ~Ended(threads[i])

\* the Receiver of the edge channel is alive: r2 is owned by the writer
r2_alive == writer_thread \in {"setup", "recv"}

\* the process runs until main returns or panics
Running_process == main_thread.at \in {"read", "join", "reconcile", "wait"}

InitPipe ==
    /\ IdleStorage /\ IdleRun /\ IdleGraph /\ IdleRoute /\ IdleReader /\ IdleWriter
    /\ main_thread = [at |-> "read", joined |-> 0, residual |-> 0]
    /\ reader_left \in 0..MaxPipeWays
    /\ way_chan = 0 /\ edge_chan = 0
    /\ threads = [i \in Workers |-> "recv"]
    /\ writer_thread = "setup"

\* s1.send(w).unwrap() in the loop over the roads: the send fails when no
\* receiver is left, blocks while the channel is full, else queues the way
ReaderSend ==
    /\ main_thread.at = "read" /\ reader_left > 0
    /\ IF ~r1_alive
       THEN /\ main_thread' = [main_thread EXCEPT !.at = "panic"]
            /\ UNCHANGED <<reader_left, way_chan>>
       ELSE /\ way_chan < ChanCap
            /\ way_chan' = way_chan + 1
            /\ reader_left' = reader_left - 1
            /\ UNCHANGED main_thread
    /\ UNCHANGED <<notPipe, edge_chan, threads, writer_thread>>

\* the loop over the roads is over: drop(s1)
ReaderDone ==
    /\ main_thread.at = "read" /\ reader_left = 0
    /\ main_thread' = [main_thread EXCEPT !.at = "join"]
    /\ UNCHANGED <<notPipe, reader_left, way_chan, edge_chan, threads, writer_thread>>

\* while let Ok(w) = r1_.recv(): a way is taken; on an empty channel with no
\* sender the loop ends and the thread returns its storage
WorkerRecv(i) ==
    /\ Running_process /\ threads[i] = "recv"
    /\ IF way_chan > 0
       THEN /\ way_chan' = way_chan - 1
            /\ threads' = [threads EXCEPT ![i] = "send"]
       ELSE /\ ~s1_alive
            /\ threads' = [threads EXCEPT ![i] = "exited"]
            /\ UNCHANGED way_chan
    /\ UNCHANGED <<notPipe, main_thread, reader_left, edge_chan, writer_thread>>

\* s2_.send(cs.insert_way(w)).unwrap(): panics when the writer has dropped
\* r2, blocks while the channel is full
WorkerSend(i) ==
    /\ Running_process /\ threads[i] = "send"
    /\ IF ~r2_alive
       THEN /\ threads' = [threads EXCEPT ![i] = "panicked"]
            /\ UNCHANGED edge_chan
       ELSE /\ edge_chan < ChanCap
            /\ edge_chan' = edge_chan + 1
            /\ threads' = [threads EXCEPT ![i] = "recv"]
    /\ UNCHANGED <<notPipe, main_thread, reader_left, way_chan, writer_thread>>

\* the writer creates the layer and its fields: each step returns the
\* GdalError with `?`
WriterSetup ==
    /\ Running_process /\ writer_thread = "setup"
    /\ writer_thread' \in {"recv", "failed"}
    /\ UNCHANGED <<notPipe, main_thread, reader_left, way_chan, edge_chan, threads>>

\* while let Ok(edges) = r2.recv(): a vector is taken and its features are
\* created, which may fail with `?`; with no sender left the loop ends
WriterRecv ==
    /\ Running_process /\ writer_thread = "recv"
    /\ IF edge_chan > 0
       THEN /\ edge_chan' = edge_chan - 1
            /\ writer_thread' \in {"recv", "failed"}
       ELSE /\ ~s2_alive
            /\ writer_thread' = "done"
            /\ UNCHANGED edge_chan
    /\ UNCHANGED <<notPipe, main_thread, reader_left, way_chan, threads>>

\* th.join().unwrap() of the next thread, which left some chains in its
\* storage; after the last thread drop(s2)
MainJoin ==
    /\ main_thread.at = "join"
    /\ IF main_thread.joined = NumWorkers
       THEN main_thread' = [main_thread EXCEPT !.at = "wait"]
       ELSE LET th == threads[main_thread.joined + 1]
            IN  /\ Ended(th)
                /\ IF th = "panicked"
                   THEN main_thread' = [main_thread EXCEPT !.at = "panic"]
                   ELSE \E n \in 0..MaxResidual :
                        main_thread' = [at |-> "reconcile",
                                        joined |-> main_thread.joined + 1,
                                        residual |-> n]
    /\ UNCHANGED <<notPipe, reader_left, way_chan, edge_chan, threads, writer_thread>>

\* s2.send(result_cs.insert(e)).unwrap() for each chain the thread left
MainReconcile ==
    /\ main_thread.at = "reconcile"
    /\ IF main_thread.residual = 0
       THEN /\ main_thread' = [main_thread EXCEPT !.at = "join"]
            /\ UNCHANGED edge_chan
       ELSE IF ~r2_alive
       THEN /\ main_thread' = [main_thread EXCEPT !.at = "panic"]
            /\ UNCHANGED edge_chan
       ELSE /\ edge_chan < ChanCap
            /\ edge_chan' = edge_chan + 1
            /\ main_thread' = [main_thread EXCEPT !.residual = @ - 1]
    /\ UNCHANGED <<notPipe, reader_left, way_chan, threads, writer_thread>>

\* writer_thread.join(), its result dropped, and Ok(())
MainWait ==
    /\ main_thread.at = "wait"
    /\ ~r2_alive
    /\ main_thread' = [main_thread EXCEPT !.at = "done"]
    /\ UNCHANGED <<notPipe, reader_left, way_chan, edge_chan, threads, writer_thread>>

NextPipe ==
    \/ ReaderSend \/ ReaderDone
    \/ \E i \in Workers : WorkerRecv(i)
    \/ \E i \in Workers : WorkerSend(i)
    \/ WriterSetup \/ WriterRecv
    \/ MainJoin \/ MainReconcile \/ MainWait

SpecPipe == InitPipe /\ [][NextPipe]_vars

\* C19: the reader is never left at a send on a full way channel when every
\* worker thread has ended
C19_ReaderNeverStuck ==
    ~ /\ main_thread.at = "read" /\ reader_left > 0
      /\ way_chan = ChanCap
      /\ \A i \in Workers : Ended(threads[i])

-----------------------------------------------------------------------------
(* src/osmio2/src/reader.rs: OsmXmlReader as an iterator over the events   *)
(* quick_xml reads. An event is its kind, the name of its element and how  *)
(* its attributes parse: "ok", "bad_utf8" (no attribute list can be made   *)
(* of them) or "bad_value" (a number or a member type that does not        *)
(* parse). An event of kind "error" is an Err of read_event. An element    *)
(* stands in an object as the position of its event in the document.       *)

\* objects in a document
MaxObjs == 2

\* children in an object
MaxChildren == 2

ObjNames == {"node", "way", "relation"}
ChildNames == {"tag", "nd", "member"}

Ev(ev, name) == [ev |-> ev, name |-> name, attrs |-> "ok"]

\* an element without content: <x/>, or <x> and </x>
Element(name) == {<<Ev("empty", name)>>, <<Ev("start", name), Ev("end", name)>>}

\* up to n elements of the named kinds, one after another
RECURSIVE Elements(_, _)
Elements(names, n) ==
    IF n = 0 THEN {<<>>}
    ELSE LET less == Elements(names, n - 1)
         IN  less \cup {s \o c : s \in less, c \in UNION {Element(nm) : nm \in names}}

\* a node, way or relation: without content, or with children
Objs ==
    UNION {{<<Ev("empty", k)>>} \cup
           {<<Ev("start", k)>> \o cs \o <<Ev("end", k)>> : cs \in Elements(ChildNames, MaxChildren)} :
           k \in ObjNames}

\* up to n objects, one after another
RECURSIVE Bodies(_)
Bodies(n) ==
    IF n = 0 THEN {<<>>}
    ELSE LET less == Bodies(n - 1)
         IN  less \cup {s \o o : s \in less, o \in Objs}

\* the documents: <osm>, objects, </osm>
Docs == {<<Ev("start", "osm")>> \o b \o <<Ev("end", "osm")>> : b \in Bodies(MaxObjs)}

\* do_skip = match nm { b"node" => self.skip_nodes, ... , _ => false }
skip_of(r, nm) ==
    CASE nm = "node" -> r.skip_nodes
      [] nm = "way" -> r.skip_ways
      [] nm = "relation" -> r.skip_relations
      [] OTHER -> FALSE

\* the element at position k of an object of this kind is parsed and an
\* attribute of it fails: _attrs_hashmap fails on any element it is called
\* for; a number is parsed in the first element, in an nd of a way and in a
\* member of a relation, where the member type is parsed too
fails(doc, kind, k, first) ==
    LET nm == doc[k].name
        parsed == \/ first \/ nm = "tag"
                  \/ (nm = "nd" /\ kind = "way")
                  \/ (nm = "member" /\ kind = "relation")
        valued == first \/ nm \in {"nd", "member"}
    IN  /\ parsed
        /\ \/ doc[k].attrs = "bad_utf8"
           \/ (doc[k].attrs = "bad_value" /\ valued)

\* _process_elements: the object of the first element, with the tag, nd and
\* member elements that follow it as far as its type holds them; the first
\* attribute that fails ends it with the ReadError
_process_elements(doc, elts) ==
    IF elts = <<>> THEN [end |-> "none", obj |-> <<>>]
    ELSE LET kind == doc[elts[1]].name
             named(nm) == SelectSeq(Tail(elts), LAMBDA k : doc[k].name = nm)
         IN  IF fails(doc, kind, elts[1], TRUE) THEN [end |-> "err", obj |-> <<>>]
             ELSE IF kind \notin ObjNames THEN [end |-> "panic", obj |-> <<>>]
             ELSE IF \E n \in 2..Len(elts) : fails(doc, kind, elts[n], FALSE)
             THEN [end |-> "err", obj |-> <<>>]
             ELSE [end |-> "some",
                   obj |-> [kind |-> kind, at |-> elts[1],
                            tags |-> named("tag"),
                            nodes |-> IF kind = "way" THEN named("nd") ELSE <<>>,
                            members |-> IF kind = "relation" THEN named("member") ELSE <<>>]]

\* the loop of _next from the event at pos on: how the call ends, the object
\* it returns, where rd stands afterwards
RECURSIVE next_loop(_, _, _, _, _, _)
next_loop(doc, r, pos, obj_started, do_skip, elements) ==
    IF pos > Len(doc) THEN [end |-> "none", obj |-> <<>>, rd |-> pos]
    ELSE
    LET e == doc[pos]
        nm == e.name
        return(res) == [end |-> res.end, obj |-> res.obj, rd |-> pos + 1]
        panic == [end |-> "panic", obj |-> <<>>, rd |-> pos + 1]
    IN  CASE e.ev = "error" -> panic
          [] ~obj_started /\ e.ev \in {"start", "empty"} ->
                IF nm \in ChildNames THEN panic
                ELSE LET skipping == skip_of(r, nm)
                         pushed == IF ~skipping THEN Append(elements, pos) ELSE elements
                     IN  IF nm \notin ObjNames
                         THEN next_loop(doc, r, pos + 1, FALSE, skipping, elements)
                         ELSE IF e.ev = "start"
                         THEN next_loop(doc, r, pos + 1, TRUE, skipping, pushed)
                         ELSE IF ~skipping
                         THEN return(_process_elements(doc, pushed))
                         ELSE next_loop(doc, r, pos + 1, FALSE, skipping, pushed)
          [] obj_started /\ e.ev \in {"start", "empty"} ->
                IF nm \in ObjNames THEN panic
                ELSE next_loop(doc, r, pos + 1, TRUE, do_skip,
                               IF ~do_skip THEN Append(elements, pos) ELSE elements)
          [] obj_started /\ e.ev = "end" ->
                IF do_skip THEN next_loop(doc, r, pos + 1, FALSE, FALSE, elements)
                ELSE IF nm \in ObjNames THEN return(_process_elements(doc, elements))
                ELSE next_loop(doc, r, pos + 1, TRUE, do_skip, elements)
          [] OTHER -> next_loop(doc, r, pos + 1, obj_started, do_skip, elements)

\* _next: its locals start empty and false
_next(doc, r) == next_loop(doc, r, r.rd, FALSE, FALSE, <<>>)

InitReader ==
    /\ IdleStorage /\ IdleRun /\ IdleGraph /\ IdleRoute /\ IdlePipe /\ IdleWriter
    /\ xml \in Docs
    /\ \E sn \in BOOLEAN, sw \in BOOLEAN, sr \in BOOLEAN :
        reader = [skip_nodes |-> sn, skip_ways |-> sw, skip_relations |-> sr,
                  rd |-> 1, last |-> "new"]
    /\ items = <<>>

\* Iterator::next of a for loop over the reader: the loop goes on after an
\* object and ends at None
ReaderNext ==
    /\ reader.last \in {"new", "some"}
    /\ LET res == _next(xml, reader)
       IN  /\ reader' = [reader EXCEPT !.rd = res.rd, !.last = res.end]
           /\ items' = IF res.end = "some" THEN Append(items, res.obj) ELSE items
    /\ UNCHANGED <<notReader, xml>>

SpecReader == InitReader /\ [][ReaderNext]_vars

\* what may be wrong at one place of a document
Faults == {"error", "bad_utf8", "bad_value"}

\* the document with the fault at position i: the event is an Err of
\* read_event, or the attributes of the element do not parse
faulty(doc, i, f) ==
    [k \in 1..Len(doc) |->
        IF k # i THEN doc[k]
        ELSE IF f = "error" THEN [ev |-> "error", name |-> "", attrs |-> "ok"]
        ELSE [doc[k] EXCEPT !.attrs = f]]

\* the documents whose tag, nd and member elements are all written <x/>
PlainDocs == {d \in Docs : \A k \in 1..Len(d) : d[k].name \in ChildNames => d[k].ev = "empty"}

\* map_nodes sets skip_ways and skip_relations, map_ways skip_nodes and
\* skip_relations; a reader made by new skips nothing
SkipSettings ==
    {[skip_nodes |-> FALSE, skip_ways |-> TRUE, skip_relations |-> TRUE],
     [skip_nodes |-> TRUE, skip_ways |-> FALSE, skip_relations |-> TRUE],
     [skip_nodes |-> FALSE, skip_ways |-> FALSE, skip_relations |-> FALSE]}

InitParse ==
    /\ IdleStorage /\ IdleRun /\ IdleGraph /\ IdleRoute /\ IdlePipe /\ IdleWriter
    /\ \E d \in PlainDocs, f \in Faults :
        \E i \in {k \in 2..Len(d) : f = "error" \/ d[k].ev # "end"} :
            xml = faulty(d, i, f)
    /\ \E sk \in SkipSettings :
        reader = [skip_nodes |-> sk.skip_nodes, skip_ways |-> sk.skip_ways,
                  skip_relations |-> sk.skip_relations, rd |-> 1, last |-> "new"]
    /\ items = <<>>

\* a pass over a document with a fault: the loop of map_nodes, of map_ways
\* or of a caller ends at the first Err item (res?)
SpecParse == InitParse /\ [][ReaderNext]_vars

-----------------------------------------------------------------------------
(* Properties of the reader (SpecReader) *)

\* the positions from..to, in order
Positions(from, to) == [i \in 1..(to - from + 1) |-> from + i - 1]

\* the end event of the element that starts at position i
EndOf(doc, i) ==
    IF doc[i].ev = "empty" THEN i
    ELSE Min({j \in (i + 1)..Len(doc) : doc[j].ev = "end" /\ doc[j].name = doc[i].name})

\* the object of the element at position i with the children it encloses
ObjectAt(doc, i) ==
    LET kind == doc[i].name
        inside == SelectSeq(Positions(i + 1, EndOf(doc, i) - 1),
                            LAMBDA k : doc[k].ev \in {"start", "empty"})
        named(nm) == SelectSeq(inside, LAMBDA k : doc[k].name = nm)
    IN  [kind |-> kind, at |-> i,
         tags |-> named("tag"),
         nodes |-> IF kind = "way" THEN named("nd") ELSE <<>>,
         members |-> IF kind = "relation" THEN named("member") ELSE <<>>]

\* the objects of the kinds that are not skipped, in document order
Expected(doc, r) ==
    LET starts == SelectSeq(Positions(1, Len(doc)),
                            LAMBDA i : /\ doc[i].ev \in {"start", "empty"}
                                       /\ doc[i].name \in ObjNames
                                       /\ ~skip_of(r, doc[i].name))
    IN  [n \in 1..Len(starts) |-> ObjectAt(doc, starts[n])]

IsPrefix(s, t) == Len(s) <= Len(t) /\ \A i \in 1..Len(s) : s[i] = t[i]

\* C20: whatever the skip flags, reading a well-nested document does not
\* panic, yields no object of a skipped kind, and yields each object of the
\* other kinds once, in document order, with its own children
C20_SkipFlags ==
    /\ reader.last # "panic"
    /\ IsPrefix(items, Expected(xml, reader))
    /\ reader.last = "none" => items = Expected(xml, reader)

-----------------------------------------------------------------------------
(* Properties of a pass over a document with a fault (SpecParse) *)

\* C21: a pass over a document with malformed XML or with an attribute that
\* does not parse does not panic: it ends with an Err item, or at the end of
\* the document
C21_ParseErrorSurfaced == reader.last \in {"new", "some", "err", "none"}

-----------------------------------------------------------------------------
(* src/graph/src/lib.rs: the highway tag of a way, in the census and in    *)
(* insert_way                                                              *)

\* the values parse_road_cat names, and values it does not name
HighwayValues ==
    {"bridleway", "cycleway", "footway", "living_street", "motorway", "path",
     "pedestrian", "primary", "primary_link", "residential", "road", "secondary",
     "secondary_link", "service", "steps", "tertiary", "tertiary_link", "track",
     "trunk", "trunk_link", "unclassified",
     "motorway_link", "proposed", "construction", "Primary", "residential_link", ""}

InitHighway ==
    /\ IdleRun /\ IdleGraph /\ IdleRoute /\ IdlePipe /\ IdleReader /\ IdleWriter
    /\ vertice \in SUBSET Nodes
    /\ edges = <<>>
    /\ out = <<>>
    /\ op = [name |-> "new", nc |-> NoChain, other |-> NoChain, way |-> NoWay,
             panic |-> FALSE, vertice |-> vertice, edges |-> <<>>]
    /\ calls = 0

\* cs.insert_way(way) on a new storage, for a way of any highway tag
HighwayCall ==
    /\ UNCHANGED notStorage
    /\ calls = 0
    /\ \E hw \in {None} \cup {Some(v) : v \in HighwayValues},
          ns \in NodeLists(Nodes, 2, MaxWayLen) :
          LET way == [id |-> 7, nodes |-> ns, tags |-> Tags(hw, None, None)]
              r == insert_way([vertice |-> vertice, edges |-> edges], way, FALSE)
          IN  /\ vertice' = r.cs.vertice
              /\ edges' = r.cs.edges
              /\ out' = r.out
              /\ op' = Call("insert_way", NoChain, NoChain, way, r.panic)
    /\ calls' = calls + 1

SpecHighway == InitHighway /\ [][HighwayCall]_vars

\* the RoadCat of each of the 17 base values
BaseCat(v) ==
    CASE v = "motorway" -> "Motorway"
      [] v = "trunk" -> "Trunk"
      [] v = "primary" -> "Primary"
      [] v = "secondary" -> "Secondary"
      [] v = "tertiary" -> "Tertiary"
      [] v = "residential" -> "Residential"
      [] v = "living_street" -> "Living"
      [] v = "unclassified" -> "Unclassified"
      [] v = "road" -> "Road"
      [] v = "service" -> "Service"
      [] v = "cycleway" -> "Cycleway"
      [] v = "footway" -> "Footway"
      [] v = "pedestrian" -> "Pedestrian"
      [] v = "steps" -> "Steps"
      [] v = "path" -> "Path"
      [] v = "track" -> "Track"
      [] v = "bridleway" -> "Bridleway"
      [] OTHER -> ""

\* the base of a link variant
LinkBase(v) ==
    CASE v = "motorway_link" -> "motorway"
      [] v = "trunk_link" -> "trunk"
      [] v = "primary_link" -> "primary"
      [] v = "secondary_link" -> "secondary"
      [] v = "tertiary_link" -> "tertiary"
      [] OTHER -> v

\* the category a highway tag stands for: "" is 'not a road'
CatOf(hw) == IF hw = None THEN "" ELSE BaseCat(LinkBase(hw[1]))

\* C22: a way whose highway tag is one of the 17 base values or one of their
\* five link variants is taken with the RoadCat of the base: the census
\* counts its nodes and insert_way makes chains of that category; a way of
\* any other tag or of none is discarded by both
C22_HighwayTag ==
    op.name = "insert_way" =>
        LET way == op.way
            cat == CatOf(way.tags.highway)
            counted == count_ways(<<>>, <<way>>).used_nodes
            made == Range(out) \cup Range(edges)
        IN  IF cat = ""
            THEN counted = <<>> /\ made = {}
            ELSE /\ DOMAIN counted = Range(way.nodes)
                 /\ made # {}
                 /\ \A nc \in made : nc.category = cat

-----------------------------------------------------------------------------
(* Invariants of a ChainStorage under insert and insert_way (SpecStorage) *)

\* C23: after any calls of insert and insert_way, no key of edges is in
\* vertice: every key is a dangling end
C23_KeysDangling == DOMAIN edges \cap vertice = {}

\* the keys of edges a chain is stored under, and its ends that are not
\* vertices
KeysOf(c) == {k \in DOMAIN edges : edges[k] = c}
DanglingEnds(c) == Range(ends(c)) \ vertice

\* C24: after any calls of insert and insert_way, an entry e -> c of edges
\* has e as an end of c, and every end of c that is not in vertice is a key
\* of edges for c itself: a chain with a dangling end is stored under its
\* dangling ends and under no other key
C24_EntriesAtEnds ==
    \A e \in DOMAIN edges :
        LET c == edges[e]
        IN  /\ e \in Range(ends(c))
            /\ \A e2 \in DanglingEnds(c) : e2 \in DOMAIN edges /\ edges[e2] = c
            /\ DanglingEnds(c) # {} => KeysOf(c) = DanglingEnds(c)

\* the second call coupled its chain of two nodes with the stored one, and
\* the chain of three nodes is stored under its two dangling ends
C24_Witness ==
    /\ calls = 2 /\ op.name = "insert" /\ Len(op.nc.nodes) = 2
    /\ \E e \in DOMAIN edges :
        /\ Len(edges[e].nodes) = 3
        /\ Cardinality(DanglingEnds(edges[e])) = 2
        /\ Cardinality(KeysOf(edges[e])) = 2

-----------------------------------------------------------------------------
(* The attributes of a merged chain (SpecCouple) *)

\* C25: a chain made of two chains has the category, lanes, oneway and
\* maxspeed of each of them, so that every segment merged into a chain has
\* the attributes the chain reports
C25_AttributeUniform ==
    (op.name = "couple" /\ out # None) =>
        \A x \in {op.nc, op.other} :
            /\ x.category = out[1].category
            /\ x.lanes = out[1].lanes
            /\ x.oneway = out[1].oneway
            /\ x.maxspeed = out[1].maxspeed

-----------------------------------------------------------------------------
(* The final reconciliation of main-gpkg.rs (SpecRun) *)

\* C26: whenever a residual chain is about to be inserted into the central
\* storage, the central vertex set holds the vertex set of every worker
C26_CentralSeeded ==
    (phase = "join" /\ DOMAIN iter # {}) =>
        \A k \in Workers : storages[k].vertice \subseteq result_cs.vertice

\* C27: the chains the reconciliation has still to pass to the insert of the
\* central storage are each there once, also a chain the worker stored under
\* two dangling ends, and none of them was already emitted
C27_DrainedOnce ==
    phase = "join" =>
        /\ \A n, m \in DOMAIN iter : n # m => iter[n] # iter[m]
        /\ \A n \in DOMAIN iter : iter[n] \notin Range(written)

-----------------------------------------------------------------------------
(* The threads of process_graph when the writer does not fail, under fair  *)
(* scheduling: a thread that can take a step takes one                     *)

WriterSetupOk == WriterSetup /\ writer_thread' = "recv"

WriterRecvOk == WriterRecv /\ writer_thread' # "failed"

MainStep == ReaderSend \/ ReaderDone \/ MainJoin \/ MainReconcile \/ MainWait

WorkerStep(i) == WorkerRecv(i) \/ WorkerSend(i)

WriterStep == WriterSetupOk \/ WriterRecvOk

NextPipeOk ==
    \/ MainStep
    \/ \E i \in Workers : WorkerStep(i)
    \/ WriterStep

SpecPipeFair ==
    /\ InitPipe /\ [][NextPipeOk]_vars
    /\ WF_vars(MainStep)
    /\ \A i \in Workers : WF_vars(WorkerStep(i))
    /\ WF_vars(WriterStep)

AllExited == \A i \in Workers : threads[i] = "exited"

\* C28: when no thread panics and the writer does not fail, process_graph
\* returns: once the reader has dropped its sender every worker exits, the
\* threads are joined and their chains sent, and the writer ends only when
\* no sender of the edge channel is left and every vector sent was received
C28_PipelineTerminates ==
    /\ [](\A i \in Workers : threads[i] # "panicked")
    /\ [](main_thread.at # "panic")
    /\ (main_thread.at # "read") ~> AllExited
    /\ [](writer_thread = "done" => (edge_chan = 0 /\ ~s2_alive /\ AllExited))
    /\ <>[](/\ main_thread = [at |-> "done", joined |-> NumWorkers, residual |-> 0]
            /\ writer_thread = "done" /\ AllExited
            /\ way_chan = 0 /\ edge_chan = 0 /\ reader_left = 0)

\* the reader has a way to send and both channels are full, every worker
\* waits to send its vector: only the writer can take a step
C28_Witness ==
    /\ main_thread.at = "read" /\ reader_left > 0
    /\ way_chan = ChanCap /\ edge_chan = ChanCap
    /\ \A i \in Workers : threads[i] = "send"
    /\ writer_thread = "recv"

-----------------------------------------------------------------------------
(* src/graph/src/lib.rs: the recursion of ChainStorage::insert, call by    *)
(* call. A call that would nest deeper than MaxDepth calls is cut off and  *)
(* reported as one that does not return.                                   *)

\* nesting of the calls of insert that is followed
MaxDepth == 8

\* calls of insert in a row
MaxTermCalls == 3

\* insert, at most depth calls deep: end is "ok" with what insert returns and
\* leaves, or "loop" when some call nests deeper
RECURSIVE insert_bounded(_, _, _)
insert_bounded(cs, nc, depth) ==
    IF depth = 0 THEN [end |-> "loop", out |-> <<>>, cs |-> cs]
    ELSE
    LET es == ends(nc)
        hits == {i \in {1, 2} : es[i] \notin cs.vertice /\ es[i] \in DOMAIN cs.edges}
    IN  IF is_full_edge(cs, nc) THEN [end |-> "ok", out |-> <<nc>>, cs |-> cs]
        ELSE IF hits # {}
        THEN LET e == es[Min(hits)]
                 nc2 == cs.edges[e]
                 nc3 == couple(nc, nc2)
             IN  IF nc3 # None
                 THEN insert_bounded(remove(cs, nc2), nc3[1], depth - 1)
                 ELSE LET promoted == [cs EXCEPT !.vertice = @ \cup {e}]
                          r1 == insert_bounded(promoted, nc, depth - 1)
                          r2 == insert_bounded(r1.cs, nc2, depth - 1)
                      IN  IF r1.end = "loop" THEN r1
                          ELSE IF r2.end = "loop" THEN r2
                          ELSE [end |-> "ok", out |-> r1.out \o r2.out, cs |-> r2.cs]
        ELSE [end |-> "ok", out |-> <<>>, cs |-> store(cs, nc)]

\* cs.insert(nc) for any chain, rings and stored chains among them; after a
\* call that does not return there is no further call
InsertDeepCall ==
    /\ UNCHANGED notStorage
    /\ calls < MaxTermCalls
    /\ op.name # "insert never returns"
    /\ \E nc \in ChainPool :
          LET r == insert_bounded([vertice |-> vertice, edges |-> edges], nc, MaxDepth)
          IN  /\ vertice' = r.cs.vertice
              /\ edges' = r.cs.edges
              /\ out' = r.out
              /\ op' = Call(IF r.end = "loop" THEN "insert never returns" ELSE "insert",
                            nc, NoChain, NoWay, FALSE)
    /\ calls' = calls + 1

SpecTerm == InitStorage /\ [][InsertDeepCall]_vars

\* C29: every call of insert returns, whatever the chain and the storage the
\* calls before have left, and it returns what insert computes
C29_InsertTerminates ==
    /\ op.name # "insert never returns"
    /\ op.name = "insert" =>
        LET r == insert([vertice |-> op.vertice, edges |-> op.edges], op.nc)
        IN  r.out = out /\ r.cs = [vertice |-> vertice, edges |-> edges]

\* the third call was for a chain that was stored, in a storage that held an
\* entry at a vertex: the chain was coupled with itself and the result, whose
\* two ends are one node, was stored
C29_Witness ==
    /\ calls = 3 /\ op.name = "insert"
    /\ op.nc \in Range(op.edges)
    /\ op.vertice \cap DOMAIN op.edges # {}
    /\ \E e \in DOMAIN edges :
        /\ Len(edges[e].nodes) = 2 * Len(op.nc.nodes) - 1
        /\ ends(edges[e])[1] = ends(edges[e])[2]

-----------------------------------------------------------------------------
(* The turns of AstarRouter::shortest_path on graphs of up to four        *)
(* vertices, at one place or along a line, and up to four roads of weight  *)
(* one                                                                     *)

MaxTurnVertex == 4
MaxTurnEdges == 4
MaxTurnWeight == 1

TurnVertices == 1..MaxTurnVertex

TurnLayouts == {[v \in TurnVertices |-> <<0, 0>>], [v \in TurnVertices |-> <<v, 0>>]}

AddTurnRoad == AddRoadIn(TurnLayouts, TurnVertices, 1..MaxTurnWeight, MaxTurnEdges)

TurnStart == AstarStartIn(TurnVertices)

NextTurns == AddTurnRoad \/ TurnStart \/ AstarForward \/ AstarBackward

SpecTurns == InitRoute /\ [][NextTurns]_vars

\* C30: the two directions alternate strictly: a step that pops the forward
\* heap is followed by a step of the backward half, unless the call ends, so
\* that the pops of the two directions never differ by more than one
C30_StrictAlternation ==
    [][(rpc = "fwd" /\ visit_number' = visit_number + 1) => rpc' # "fwd"]_vars

\* the vertices settled in both directions
SettledInBoth == DOMAIN forward_visited \cap DOMAIN backward_visited

\* C31: the returned BidirPath has its meet_vertex in both visited maps and
\* no other vertex in both; in every state of the search before the return
\* the two visited maps share no vertex
C31_MeetAtFirstCommon ==
    /\ rpc = "ok" => SettledInBoth = {meet_vertex}
    /\ rpc # "ok" => SettledInBoth = {}

\* a search that meets at a vertex which is neither the source nor the
\* target, after each direction has settled two vertices
C31_Witness ==
    /\ rpc = "ok"
    /\ meet_vertex \notin {route.source, route.target}
    /\ Cardinality(DOMAIN forward_visited) >= 2
    /\ Cardinality(DOMAIN backward_visited) >= 2
    /\ meet_vertex \in SettledInBoth

-----------------------------------------------------------------------------
(* A graph of roads, then one search over it: Isochrone::try_new,          *)
(* AstarRouter::shortest_path, or AltRouter::new and                       *)
(* AltRouter::shortest_path                                                *)

\* Isochrone::try_new on the graph of roads
RoadIsoStart ==
    /\ rpc = "build"
    /\ try_new_start
    /\ rpc' = "iso"
    /\ UNCHANGED <<svars, xvars, pvars, evars, bvars, graph, route, astar_vars,
                   visit_number, landmark_dist, visited, path_out>>

NextSettle ==
    \/ AddRoad
    \/ RoadIsoStart \/ IsoStep
    \/ AstarStart \/ AstarForward \/ AstarBackward
    \/ AltNew \/ AltStart \/ AltStep

SpecSettle == InitRoute /\ [][NextSettle]_vars

\* every entry of the map `before` is in the map `after`, unchanged
Keeps(before, after) ==
    \A v \in DOMAIN before : v \in DOMAIN after /\ after[v] = before[v]

\* the recorded predecessors lead from v to the seed in at most fuel hops,
\* each hop along an edge of g from the predecessor, the weights adding up to
\* the recorded cost_before
RECURSIVE Traced(_, _, _, _, _)
Traced(vm, g, v, seed, fuel) ==
    IF v = seed
    THEN vm[v].from = seed /\ vm[v].cost_before = 0
    ELSE LET u == vm[v].from
         IN  /\ fuel > 0
             /\ u \in DOMAIN vm /\ u \in DOMAIN g
             /\ \E i \in 1..Len(g[u].edges) :
                    /\ g[u].edges[i].v2 = v
                    /\ vm[u].cost_before + g[u].edges[i].weight = vm[v].cost_before
             /\ Traced(vm, g, u, seed, fuel - 1)

\* the distance table records no predecessor: a distance is 0 at the source,
\* or that of a settled neighbour plus the weight of the edge from it
Supported(distances, g, v, seed) ==
    IF v = seed THEN distances[v] = 0
    ELSE \E u \in DOMAIN distances \cap DOMAIN g :
            \E i \in 1..Len(g[u].edges) :
                /\ g[u].edges[i].v2 = v
                /\ distances[u] + g[u].edges[i].weight = distances[v]

AllTraced ==
    /\ \A v \in DOMAIN forward_visited :
            Traced(forward_visited, graph, v, route.source, MaxVertex)
    /\ \A v \in DOMAIN backward_visited :
            Traced(backward_visited, graph, v, route.target, MaxVertex)
    /\ \A v \in DOMAIN visited : Traced(visited, graph, v, route.source, MaxVertex)
    /\ \A v \in DOMAIN iso.distances : Supported(iso.distances, graph, v, iso.source)

AllKept ==
    /\ Keeps(forward_visited, forward_visited')
    /\ Keeps(backward_visited, backward_visited')
    /\ Keeps(visited, visited')
    /\ Keeps(iso.distances, iso'.distances)

\* C32: in each of the searches a settled vertex keeps its entry (its
\* cost_before, its predecessor, its visit number) for the rest of the search,
\* and the recorded predecessors lead from it to the seed along edges of the
\* graph whose weights add up to its recorded cost_before
C32_SettledForGood == []AllTraced /\ [][AllKept]_vars

\* AltRouter::shortest_path has returned a path of at least two edges while
\* another score of a settled vertex is still on the heap
C32_Witness ==
    /\ rpc = "alt_ok"
    /\ visited[route.target].from # route.source
    /\ route.target # route.source
    /\ \E vs \in BagToSet(heap) : vs.vid \in DOMAIN visited

-----------------------------------------------------------------------------
(* The estimates of AltRouter::shortest_path (SpecAlt) *)

\* the largest of the differences |d(v, L_i) - d(target, L_i)| over the
\* landmarks i, or 0 when v or target has no row in the table
LandmarkBound(table, v, target) ==
    IF v \notin DOMAIN table \/ target \notin DOMAIN table THEN 0
    ELSE LET diffs == {Abs(table[v][i] - table[target][i]) : i \in 1..Len(table[v])}
         IN  IF diffs = {} THEN 0 ELSE CHOOSE m \in diffs : \A o \in diffs : o <= m

\* C33: every score on the heap of AltRouter::shortest_path carries as its
\* estimate the largest landmark difference between its vertex and the target,
\* and 0 when either of the two is missing from landmark_dist
C33_EstimateIsLandmarkBound ==
    \A vs \in BagToSet(heap) :
        vs.cost_remain = LandmarkBound(landmark_dist, vs.vid, route.target)

\* C34: AltRouter::new does not panic on a graph that has a vertex
C34_NewNeverPanics == rpc = "panic" => DOMAIN graph = {}

-----------------------------------------------------------------------------
(* A whole extraction run as a function of the order of the ways and of    *)
(* the worker each way goes to, for the comparison of two runs over the    *)
(* same ways (SpecRun)                                                     *)

\* main.rs: the chains written by map_ways over the ways ws from way i on
RECURSIVE csv_run(_, _, _)
csv_run(cs, ws, i) ==
    IF i > Len(ws) THEN <<>>
    ELSE LET r == insert_way(cs, ws[i], FALSE)
         IN  r.out \o csv_run(r.cs, ws, i + 1)

\* main-gpkg.rs: the storages of the workers and the chains sent to the writer
\* after the ways ws from way i on, way j going to worker assign[j]
RECURSIVE gpkg_workers(_, _, _, _)
gpkg_workers(st, ws, assign, i) ==
    IF i > Len(ws) THEN [out |-> <<>>, storages |-> st]
    ELSE LET r == insert_way(st[assign[i]], ws[i], FALSE)
             rest == gpkg_workers([st EXCEPT ![assign[i]] = r.cs], ws, assign, i + 1)
         IN  [out |-> r.out \o rest.out, storages |-> rest.storages]

\* main-gpkg.rs: the for loop over the clone it of a worker's edges, taken
\* in the order of the keys
RECURSIVE gpkg_drain(_, _)
gpkg_drain(central, it) ==
    IF DOMAIN it = {} THEN [out |-> <<>>, cs |-> central]
    ELSE LET n == Min(DOMAIN it)
             r == insert(central, it[n])
             rest == gpkg_drain(r.cs, [m \in (DOMAIN it) \ {n} |-> it[m]])
         IN  [out |-> r.out \o rest.out, cs |-> rest.cs]

\* main-gpkg.rs: the loop over the threads from thread k on
RECURSIVE gpkg_reconcile(_, _, _)
gpkg_reconcile(central, st, k) ==
    IF k > NumWorkers THEN <<>>
    ELSE LET seeded == [central EXCEPT !.vertice = @ \cup st[k].vertice]
             r == gpkg_drain(seeded, st[k].edges)
         IN  r.out \o gpkg_reconcile(r.cs, st, k + 1)

\* main-gpkg.rs: every chain written by a run over the ways ws
gpkg_run(V, ws, assign) ==
    LET w == gpkg_workers([k \in Workers |-> ChainStorage_new(V)], ws, assign, 1)
    IN  w.out \o gpkg_reconcile(ChainStorage_new(V), w.storages, 1)

\* the multiset of the chains as node sequences up to reversal
EdgeBag(chains) ==
    LET key(i) == {chains[i].nodes, Reverse(chains[i].nodes)}
    IN  [c \in {key(i) : i \in DOMAIN chains} |->
            Cardinality({i \in DOMAIN chains : key(i) = c})]

\* the orders a file of n ways can have
Orders(n) == {p \in [1..n -> 1..n] : \A i, j \in 1..n : p[i] = p[j] => i = j}

\* C35: a finished run has emitted the same edges, as a multiset of node
\* sequences up to reversal, as every run over the same ways in another
\* order or with another assignment of the ways to the workers
C35_OrderIndependent ==
    phase = "done" =>
        \A p \in Orders(Len(osm.ways)) :
            LET ws == [i \in 1..Len(osm.ways) |-> osm.ways[p[i]]]
            IN  IF mode = "csv"
                THEN EdgeBag(csv_run(ChainStorage_new(census.vertice), ws, 1))
                        = EdgeBag(written)
                ELSE \A assign \in [1..Len(ws) -> Workers] :
                        EdgeBag(gpkg_run(census.vertice, ws, assign)) = EdgeBag(written)

-----------------------------------------------------------------------------
(* The direction of travel through couple (SpecCouple) *)

\* the nodes s stand in t in the order of s, one after the other
AppearsIn(s, t) ==
    \E k \in 0..(Len(t) - Len(s)) : \A i \in 1..Len(s) : t[k + i] = s[i]

\* C36: when two one-way chains are coupled, the nodes of each stand in the
\* result in their original order
C36_OnewayKept ==
    (op.name = "couple" /\ out # None /\ op.nc.oneway \in {"Forward", "Backward"}) =>
        /\ AppearsIn(op.nc.nodes, out[1].nodes)
        /\ AppearsIn(op.other.nodes, out[1].nodes)

-----------------------------------------------------------------------------
(* What the returned BidirPath reports (SpecAstar) *)

\* the weights of the edges es added up
RECURSIVE TotalWeight(_)
TotalWeight(es) == IF es = <<>> THEN 0 ELSE Head(es).weight + TotalWeight(Tail(es))

\* C37: the weights of the edges() of a returned path add up to its cost(),
\* also on a graph with several edges between the same two vertices
C37_EdgesSumToCost ==
    rpc = "ok" =>
        LET es == BidirPath_edges(Returned)
            c == BidirPath_cost(Returned)
        IN  es.end = "ok" /\ c.end = "ok" /\ TotalWeight(es.val) = c.val

\* BidirPath::vertice_geoms: the point of each vertex of vertice() is pushed,
\* an error if a vertex is not in the graph, and the vector is reversed
BidirPath_vertice_geoms(bp) ==
    LET vs == BidirPath_vertice(bp)
    IN  IF vs.end # "ok" THEN vs
        ELSE IF \E i \in 1..Len(vs.val) : vs.val[i] \notin DOMAIN bp.graph
        THEN Err_Programming
        ELSE Ok(Reverse([i \in 1..Len(vs.val) |-> bp.graph[vs.val[i]].geom]))

\* C38: vertice_geoms() of a returned path gives, at every index, the point
\* of the vertex that vertice() gives at that index
C38_GeomsFollowVertice ==
    rpc = "ok" =>
        LET vs == BidirPath_vertice(Returned)
            pts == BidirPath_vertice_geoms(Returned)
        IN  /\ vs.end = "ok" /\ pts.end = "ok"
            /\ Len(pts.val) = Len(vs.val)
            /\ \A i \in 1..Len(vs.val) : pts.val[i] = graph[vs.val[i]].geom

-----------------------------------------------------------------------------
(* src/osmio2/src/writer.rs: a BgWriter, its caller and its thread. An     *)
(* object is written whole or not at all; a write_event of the             *)
(* OsmXmlWriter may fail, as the io::Write below it may.                   *)

MaxBgCalls == 4

\* bounded(5)
BG_CHANNEL == 5

BgObjs == {"node", "way"}

CloseTag == "</osm>"

\* the receiver lives as long as the closure of the thread runs
receiver_alive == bg_thread = "recv"

\* the state BgWriter::new leaves: the thread spawned, handle and sender Some
InitWriter ==
    /\ IdleStorage /\ IdleRun /\ IdleGraph /\ IdleRoute /\ IdlePipe /\ IdleReader
    /\ bg = [handle |-> TRUE, sender |-> TRUE]
    /\ obj_chan = <<>>
    /\ bg_thread = "recv"
    /\ wr = <<>>
    /\ returned = <<>>
    /\ caller = "ready"

\* BgWriter::write: Ok without a send when the sender is gone; else the send,
\* which waits while the channel is full and fails when the receiver is gone
BgWrite ==
    /\ caller = "ready"
    /\ Len(returned) < MaxBgCalls
    /\ \E item \in BgObjs :
        IF ~bg.sender
        THEN /\ returned' = Append(returned, [call |-> "write", item |-> item, ok |-> TRUE])
             /\ obj_chan' = obj_chan
        ELSE IF ~receiver_alive
        THEN /\ returned' = Append(returned, [call |-> "write", item |-> item, ok |-> FALSE])
             /\ obj_chan' = obj_chan
        ELSE /\ Len(obj_chan) < BG_CHANNEL
             /\ returned' = Append(returned, [call |-> "write", item |-> item, ok |-> TRUE])
             /\ obj_chan' = Append(obj_chan, item)
    /\ UNCHANGED <<notWriter, bg, bg_thread, wr, caller>>

\* BgWriter::close up to the join: the sender is taken and dropped, the
\* handle is taken; without a handle close returns Ok at once
BgClose ==
    /\ caller = "ready"
    /\ Len(returned) < MaxBgCalls
    /\ bg' = [handle |-> FALSE, sender |-> FALSE]
    /\ IF bg.handle
       THEN caller' = "join" /\ returned' = returned
       ELSE /\ caller' = "ready"
            /\ returned' = Append(returned, [call |-> "close", item |-> "", ok |-> TRUE])
    /\ UNCHANGED <<notWriter, obj_chan, bg_thread, wr>>

\* handle.join()?: the thread has ended without a panic, so join gives Ok of
\* what the closure returned, whatever that is, and close returns Ok(())
BgJoin ==
    /\ caller = "join"
    /\ bg_thread \in {"ok", "err"}
    /\ returned' = Append(returned, [call |-> "close", item |-> "", ok |-> TRUE])
    /\ caller' = "ready"
    /\ UNCHANGED <<notWriter, bg, obj_chan, bg_thread, wr>>

\* the thread: receiver.recv() gives an object and wr.write(..)? writes it, or
\* fails, which ends the closure and drops the receiver with what it holds
BgRecv ==
    /\ bg_thread = "recv"
    /\ obj_chan # <<>>
    /\ \/ /\ wr' = Append(wr, Head(obj_chan))
          /\ obj_chan' = Tail(obj_chan)
          /\ bg_thread' = "recv"
       \/ /\ wr' = wr
          /\ obj_chan' = <<>>
          /\ bg_thread' = "err"
    /\ UNCHANGED <<notWriter, bg, returned, caller>>

\* the thread: recv fails on the empty channel without a sender, the loop
\* ends and wr.close()? writes the closing tag, or fails
BgEnd ==
    /\ bg_thread = "recv"
    /\ obj_chan = <<>>
    /\ ~bg.sender
    /\ \/ wr' = Append(wr, CloseTag) /\ bg_thread' = "ok"
       \/ wr' = wr /\ bg_thread' = "err"
    /\ UNCHANGED <<notWriter, bg, obj_chan, returned, caller>>

NextWriter == BgWrite \/ BgClose \/ BgJoin \/ BgRecv \/ BgEnd

SpecWriter == InitWriter /\ [][NextWriter]_vars

\* the objects for which write returned Ok, in the order of the calls
RECURSIVE Accepted(_)
Accepted(rs) ==
    IF rs = <<>> THEN <<>>
    ELSE (IF Head(rs).call = "write" /\ Head(rs).ok THEN <<Head(rs).item>> ELSE <<>>)
            \o Accepted(Tail(rs))

\* C39: once close has returned Ok, the OsmXmlWriter has written every object
\* for which write returned Ok, before or after the close, in the order of
\* the calls, and then the closing tag
C39_AcceptedIsWritten ==
    (\E i \in DOMAIN returned : returned[i].call = "close" /\ returned[i].ok) =>
        wr = Accepted(returned) \o <<CloseTag>>

====
